---- MODULE Spec2Model ----
(***************************************************************************)
(* Model of SRpy: qualitative spatial relations between oriented boxes.    *)
(*                                                                         *)
(* Numbers.  The program computes with floats in metres and radians.  The  *)
(* model computes with exact integers on a grid:                           *)
(*   - lengths and coordinates are whole centimetres (Scale units per      *)
(*     metre), extents are even so that width/2 is a grid value;           *)
(*   - the tolerance handed to sectorOf is kept in 1/Fine of a centimetre, *)
(*     so that the 0.00001 m used by the assembly step is a value of its   *)
(*     own, different from 0;                                              *)
(*   - angles are whole degrees, and objects are turned by multiples of    *)
(*     90 degrees, where sine and cosine are exactly 0, 1 or -1;           *)
(*   - a Euclidean length is kept as its square, and comparisons of sums   *)
(*     of lengths are decided exactly on the squares (LtSum, GtSum).       *)
(***************************************************************************)
EXTENDS Integers, Sequences, FiniteSets, TLC

VARIABLES objs, arg, ret, sr

vars == <<objs, arg, ret, sr>>

\* ---------------------------------------------------------------- bounds
\* most operations of a pipeline drawn
MaxOps == 2
\* largest half extent of a drawn box, in grid units
MaxHalf == 2
\* largest |coordinate| of a drawn position or point, in grid units
MaxPos == 3
\* largest half extent of a drawn slab, in grid units
MaxWide == 3
\* largest reading of the clock, in milliseconds
MaxInterval == 4
\* latest time of a run, in milliseconds
MaxTime == 8
\* the largest half extent of a long box, in grid units
MaxLong == 4

\* ----------------------------------------------------------------- units
\* grid units per metre: the program's lengths are metres
Scale == 100
\* tolerance units per grid unit
Fine == 1000

Abs(v) == IF v < 0 THEN -v ELSE v
Min2(a, b) == IF a <= b THEN a ELSE b
Max2(a, b) == IF a >= b THEN a ELSE b
Half(v) == v \div 2

\* sqrt(d) < sqrt(a) + sqrt(b), for squares d, a, b >= 0
LtSum(d, a, b) == LET e == d - a - b IN e < 0 \/ e * e < 4 * a * b
\* sqrt(d) > sqrt(a) + sqrt(b)
GtSum(d, a, b) == LET e == d - a - b IN e > 0 /\ e * e > 4 * a * b

\* ------------------------------------------------------------- Vector3
Vector3(x, y, z) == [x |-> x, y |-> y, z |-> z]
VSub(p, q) == Vector3(p.x - q.x, p.y - q.y, p.z - q.z)
\* the square of Vector3.length()
LengthSq(v) == v.x * v.x + v.y * v.y + v.z * v.z

\* sine and cosine of an angle in degrees, for the quarter turns
Norm360(a) == a % 360
Sin(a) == CASE Norm360(a) = 0 -> 0 [] Norm360(a) = 90 -> 1
            [] Norm360(a) = 180 -> 0 [] Norm360(a) = 270 -> -1
Cos(a) == CASE Norm360(a) = 0 -> 1 [] Norm360(a) = 90 -> 0
            [] Norm360(a) = 180 -> -1 [] Norm360(a) = 270 -> 0

\* Vector2.rotate(radians) applied to (x, y); the zero vector is turned into
\* itself by every angle, other vectors are turned by quarter turns only
Vector2Rotate(x, y, a) ==
    IF x = 0 /\ y = 0 THEN [x |-> 0, y |-> 0]
    ELSE [x |-> x * Cos(a) - y * Sin(a), y |-> x * Sin(a) + y * Cos(a)]

\* ------------------------------------------------------------ Python values
\* A value of a dict carries its Python type: a number, a string, a bool, a
\* list of numbers, a dict, or a member of an enumeration.
Num(v) == [t |-> "num", v |-> v]
Str(v) == [t |-> "str", v |-> v]
Bool(v) == [t |-> "bool", v |-> v]
List(v) == [t |-> "list", v |-> v]
DictOf(v) == [t |-> "dict", v |-> v]
EnumOf(v) == [t |-> "enum", v |-> v]

\* ------------------------------------------------------- SpatialAdjustment
\* SpatialAdjustment(): 0.02 m, 0.05*pi rad, circle, 2.0, 2.5 m, 4.0, 10.0.
\* nearbySchema is a member of NearbySchema here; adjust() stores a str.
defaultAdjustment ==
    [maxGap |-> 2, maxAngleDelta |-> 9,
     nearbySchema |-> EnumOf("circle"), nearbyFactor |-> 2, nearbyLimit |-> 250,
     longRatio |-> 4, thinRatio |-> 10]

\* SpatialPredicateCategories(): the flags of a reasoner's deduce
defaultDeduce ==
    [topology |-> TRUE, connectivity |-> TRUE, comparability |-> FALSE,
     similarity |-> FALSE, sectoriality |-> FALSE, visibility |-> FALSE,
     geography |-> FALSE]

\* ----------------------------------------------------------- SpatialObject
\* SpatialObject.__init__: the fields and their defaults. The angle is kept
\* in degrees; data is the dict of auxiliary data, None being the empty dict
\* (setData and asDict treat the two alike).
SpatialObject(id, position, width, height, depth, angle) ==
    [id |-> id, existence |-> "real", cause |-> "unknown",
     label |-> "", type |-> "", supertype |-> "", look |-> "",
     data |-> <<>>,
     position |-> position, width |-> width, height |-> height, depth |-> depth,
     angle |-> angle, immobile |-> FALSE,
     velocity |-> [x |-> 0, y |-> 0, z |-> 0],
     confidence |-> [pose |-> 0, dimension |-> 0, label |-> 0, look |-> 0],
     shape |-> "unknown",
     visible |-> FALSE, focused |-> FALSE, context |-> FALSE]

\* SpatialObject.adjustment (getter): the context's adjustment, else the
\* default. An object seen in the context of a reasoner carries that
\* reasoner's adjustment; "_adjustment", which the setter writes, is not read.
adjustment(o) ==
    IF o.context /\ "adjustment" \in DOMAIN o THEN o.adjustment
    ELSE defaultAdjustment
\* SpatialObject.adjustment (setter) with a SpatialAdjustment
set_adjustment(o, value) == [_adjustment |-> value] @@ o

\* SpatialObject.center
center(o) ==
    Vector3(o.position.x + Half(o.width),
            o.position.y + Half(o.height),
            o.position.z + Half(o.depth))

footprint(o) == o.depth * o.width
frontface(o) == o.height * o.width
sideface(o) == o.height * o.depth
volume(o) == o.depth * o.width * o.height
\* the squares of radius and baseradius
radiusSq(o) == LengthSq(Vector3(Half(o.width), Half(o.depth), Half(o.height)))
baseradiusSq(o) == Half(o.width) * Half(o.width) + Half(o.depth) * Half(o.depth)

\* the longest side looked for width first
long_ratioWidthFirst(o, ratio) ==
    LET max_val == Max2(o.width, Max2(o.height, o.depth))
        min_val == Min2(o.width, Min2(o.height, o.depth))
    IN  IF ~(max_val > 0 /\ max_val >= min_val * ratio) THEN 0
        ELSE IF o.width = max_val THEN 1
        ELSE IF o.height = max_val THEN 2
        ELSE 3
\* SpatialObject.long_ratio(ratio)
long_ratio(o, ratio) ==
    LET max_val == Max2(o.width, Max2(o.height, o.depth))
        min_val == Min2(o.width, Min2(o.height, o.depth))
    IN  IF ~(max_val > 0 /\ max_val >= min_val * ratio) THEN 0
        ELSE IF o.depth = max_val THEN 3
        ELSE IF o.height = max_val THEN 2
        ELSE 1

\* SpatialObject.mainDirection: long_ratio with the default ratio, which is
\* defaultAdjustment.longRatio as read when the class was defined
mainDirection(o) == long_ratio(o, defaultAdjustment.longRatio)

\* SpatialObject.long, .equilateral: long_ratio() with the default ratio
long(o) == long_ratio(o, defaultAdjustment.longRatio) > 0
equilateral(o) == long_ratio(o, defaultAdjustment.longRatio) = 0

\* SpatialObject.length: long_ratio(1.1); on even extents max >= min * 1.1
\* is decided exactly by 10 * max >= 11 * min
length(o) ==
    LET max_val == Max2(o.width, Max2(o.height, o.depth))
        min_val == Min2(o.width, Min2(o.height, o.depth))
        alignment == IF ~(max_val > 0 /\ 10 * max_val >= 11 * min_val) THEN 0
                     ELSE IF o.depth = max_val THEN 3
                     ELSE IF o.height = max_val THEN 2
                     ELSE 1
    IN  IF alignment = 1 THEN o.width
        ELSE IF alignment = 2 THEN o.height
        ELSE o.depth

\* SpatialObject.points(): the 8 corners in world coordinates
points(o) ==
    LET hw == Half(o.width)
        hd == Half(o.depth)
        p0 == Vector2Rotate(hw, hd, -o.angle)
        p1 == Vector2Rotate(-hw, hd, -o.angle)
        p2 == Vector2Rotate(-hw, -hd, -o.angle)
        p3 == Vector2Rotate(hw, -hd, -o.angle)
        v == o.position
        lower(p) == Vector3(p.x + v.x, v.y, p.y + v.z)
        upper(p) == Vector3(p.x + v.x, v.y + o.height, p.y + v.z)
    IN  <<lower(p0), lower(p1), lower(p2), lower(p3),
          upper(p0), upper(p1), upper(p2), upper(p3)>>

\* SpatialObject.intoLocal(pt)
intoLocal(o, pt) ==
    LET vx == pt.x - o.position.x
        vz == pt.z - o.position.z
    IN  Vector3(vx * Cos(o.angle) - vz * Sin(o.angle),
                pt.y - o.position.y,
                vx * Sin(o.angle) + vz * Cos(o.angle))

\* SpatialObject.intoLocal_pts(pts)
intoLocal_pts(o, pts) == [k \in DOMAIN pts |-> intoLocal(o, pts[k])]

\* the square of SpatialObject.nearbyRadius()
nearbyRadiusSq(o) ==
    LET adj == adjustment(o)
        f == adj.nearbyFactor
        lim == adj.nearbyLimit * adj.nearbyLimit
    IN  CASE adj.nearbySchema = EnumOf("fixed") -> f * Scale * f * Scale
          [] adj.nearbySchema = EnumOf("circle") -> Min2(f * f * baseradiusSq(o), lim)
          [] adj.nearbySchema = EnumOf("sphere") -> Min2(f * f * radiusSq(o), lim)
          [] adj.nearbySchema = EnumOf("perimeter") ->
                Min2((o.height + o.width) * f * (o.height + o.width) * f, lim)
          [] adj.nearbySchema = EnumOf("area") ->
                Min2(((o.height * o.width * f) \div Scale)
                     * ((o.height * o.width * f) \div Scale), lim)
          [] OTHER -> 0

\* ------------------------------------------------------------ BBoxSector
\* BBoxSectorFlags: the base flags, in the order of their definition
BaseFlags == <<"i", "a", "b", "l", "r", "o", "u">>

\* BBoxSector.divergencies()
divergencies(zone) == IF "i" \in zone THEN 0 ELSE Cardinality(zone)

\* BBoxSector.list_base_flags(): the names of the base flags that are set
list_base_flags(zone) == SelectSeq(BaseFlags, LAMBDA f : f \in zone)

RECURSIVE Join(_)
\* '+'.join(flags)
Join(flags) ==
    IF Len(flags) = 0 THEN ""
    ELSE IF Len(flags) = 1 THEN flags[1]
    ELSE flags[1] \o "+" \o Join(Tail(flags))

\* BBoxSector.__str__
SectorStr(zone) ==
    IF Len(list_base_flags(zone)) > 0 THEN Join(list_base_flags(zone))
    ELSE "no sector"

\* the tolerance sentinel of sectorOf and its default (-99.0 and -100.0 m)
EpsilonSentinel == -99 * Scale * Fine
EpsilonDefault == -100 * Scale * Fine

\* sectorOf, one axis, without the elif: both flags of a pair can be set
AxisFlagsNoElse(v, delta, upper, lower, pos, neg) ==
    (IF v + delta > upper THEN {pos} ELSE {})
        \cup (IF -v + delta > lower THEN {neg} ELSE {})

\* sectorOf, one axis: "if v + delta > upper: pos / elif -v + delta > lower:
\* neg" (for y the second test is written y - delta < 0)
AxisFlags(v, delta, upper, lower, pos, neg) ==
    IF v + delta > upper THEN {pos}
    ELSE IF -v + delta > lower THEN {neg}
    ELSE {}

\* SpatialObject.sectorOf(point, nearBy, epsilon): point in grid units,
\* epsilon in tolerance units
sectorOf(o, point, nearBy, epsilon) ==
    LET hh == Half(o.height)
        distanceSq == LengthSq(Vector3(point.x, point.y - hh, point.z))
        delta == IF epsilon > EpsilonSentinel THEN epsilon
                 ELSE adjustment(o).maxGap * Fine
        x == point.x * Fine
        y == point.y * Fine
        z == point.z * Fine
        w2 == Half(o.width) * Fine
        d2 == Half(o.depth) * Fine
        h == o.height * Fine
    IN  IF nearBy /\ distanceSq > nearbyRadiusSq(o) THEN {}
        ELSE IF /\ x <= w2 + delta /\ -x <= w2 + delta
                /\ z <= d2 + delta /\ -z <= d2 + delta
                /\ y <= h + delta /\ y >= -delta
             THEN {"i"}
        ELSE AxisFlags(x, delta, w2, w2, "l", "r")
                 \cup AxisFlags(z, delta, d2, d2, "a", "b")
                 \cup AxisFlags(y, delta, h, 0, "o", "u")

\* -------------------------------------------------------- SpatialPredicate
\* class SpatialPredicate(Enum): member name |-> value
SpatialPredicate ==
    [undefined |-> "undefined", near |-> "near", far |-> "far",
     left |-> "left", right |-> "right", above |-> "above", below |-> "below",
     ahead |-> "ahead", behind |-> "behind",
     ontop |-> "on top", beneath |-> "beneath",
     upperside |-> "at upper side", lowerside |-> "at lower side",
     leftside |-> "at left side", rightside |-> "at right side",
     frontside |-> "at front side", backside |-> "at back side",
     orthogonal |-> "orthogonal", opposite |-> "opposite", aligned |-> "aligned",
     frontaligned |-> "front aligned", backaligned |-> "back aligned",
     leftaligned |-> "left aligned", rightaligned |-> "right aligned",
     disjoint |-> "disjoint", inside |-> "inside", containing |-> "containing",
     overlapping |-> "overlapping", crossing |-> "crossing",
     touching |-> "touching", meeting |-> "meeting", beside |-> "beside",
     fitting |-> "fitting", exceeding |-> "exceeding",
     smaller |-> "smaller", bigger |-> "bigger", shorter |-> "shorter",
     longer |-> "longer", taller |-> "taller", thinner |-> "thinner",
     wider |-> "wider",
     samewidth |-> "same width", sameheight |-> "same height",
     samedepth |-> "same depth", samelength |-> "same length",
     samefront |-> "same front face", sameside |-> "same side face",
     samefootprint |-> "same footprint", samevolume |-> "same volume",
     samecenter |-> "same center", sameposition |-> "same position",
     samecuboid |-> "same cuboid", congruent |-> "congruent",
     sameshape |-> "same shape", samesurface |-> "samesurface",
     seenleft |-> "seen left", seenright |-> "seen right",
     infront |-> "in front", atrear |-> "at rear", tangible |-> "tangible",
     eightoclock |-> "eight o'clock", nineoclock |-> "nine o'clock",
     tenoclock |-> "ten o'clock", elevenoclock |-> "eleven o'clock",
     twelveoclock |-> "twelve o'clock", oneoclock |-> "one o'clock",
     twooclock |-> "two o'clock", threeoclock |-> "three o'clock",
     fouroclock |-> "four o'clock",
     secondleft |-> "second left", secondright |-> "second right",
     mostleft |-> "most left", mostright |-> "most right",
     on |-> "on", at |-> "at", by |-> "by", in_ |-> "in",
     i |-> "i", a |-> "a", b |-> "b", l |-> "l", r |-> "r", o |-> "o", u |-> "u",
     al |-> "al", ar |-> "ar", bl |-> "bl", br |-> "br",
     ao |-> "ao", au |-> "au", bo |-> "bo", bu |-> "bu",
     lo |-> "lo", lu |-> "lu", ro |-> "ro", ru |-> "ru",
     alo |-> "alo", aro |-> "aro", blo |-> "blo", bro |-> "bro",
     alu |-> "alu", aru |-> "aru", blu |-> "blu", bru |-> "bru",
     north |-> "north", south |-> "south", east |-> "east", west |-> "west",
     northwest |-> "northwest", northeast |-> "northeast",
     southwest |-> "southwest", southeast |-> "southeast"]

\* SpatialPredicate.named(name): the member whose value is name
named(name) ==
    IF \E m \in DOMAIN SpatialPredicate : SpatialPredicate[m] = name
    THEN CHOOSE m \in DOMAIN SpatialPredicate : SpatialPredicate[m] = name
    ELSE "undefined"

\* ---------------------------------------------------------- SpatialRelation
\* a delta that is a Euclidean length is kept as its square (sq = TRUE)
Lin(v) == [val |-> v, sq |-> FALSE]
Dist(vsq) == [val |-> vsq, sq |-> TRUE]

\* SpatialRelation(subject, predicate, object, delta, angle)
SpatialRelation(subject, predicate, object, delta, angle) ==
    [subject |-> subject.id, predicate |-> predicate, object |-> object.id,
     delta |-> delta, angle |-> angle]

\* the predicates of a list of relations
Predicates(rels) == {rels[k].predicate : k \in DOMAIN rels}

\* SpatialObject.sector(subject, nearBy, epsilon)
sector(self, subject, nearBy, epsilon) ==
    LET center_distance == LengthSq(VSub(center(subject), center(self)))
        local_center == intoLocal(self, center(subject))
        center_zone == sectorOf(self, local_center, nearBy, epsilon)
        theta == subject.angle - self.angle
        pred == named(SectorStr(center_zone))
    IN  SpatialRelation(subject, pred, self, Dist(center_distance), theta)

\* -------------------------------------------------------------- topologies
\* float('inf'), the start value of a minimum
Infinity == 1000000

SetMin(S) == CHOOSE m \in S : \A n \in S : m <= n
SetMax(S) == CHOOSE m \in S : \A n \in S : m >= n
Xs(pts) == {pts[k].x : k \in DOMAIN pts}
Ys(pts) == {pts[k].y : k \in DOMAIN pts}
Zs(pts) == {pts[k].z : k \in DOMAIN pts}

\* self.context.deduce of an object that has a context: the flags the
\* object carries for its context, the flags of a new reasoner if it
\* carries none
deduce(o) == IF "deduce" \in DOMAIN o THEN o.deduce ELSE defaultDeduce
\* the object after a reasoner with these flags has taken it into its context
InContext(o, flags) == [deduce |-> flags] @@ [o EXCEPT !.context = TRUE]
\* connectivity taken as on for every object
connectivityAlways(o) == TRUE
\* "self.context and self.context.deduce.connectivity"
connectivityOn(o) == o.context /\ deduce(o).connectivity

\* the square of (subject.center - self.center).length()
centerDistanceSq(self, subject) == LengthSq(VSub(center(subject), center(self)))
\* center_distance > self.radius + subject.radius
canNotOverlap(self, subject) ==
    GtSum(centerDistanceSq(self, subject), radiusSq(self), radiusSq(subject))

\* SpatialObject._haveSameCenter: center_distance < 1e-6 m, which on the
\* grid is a distance of 0
haveSameCenter(self, subject) ==
    LET center_distance == centerDistanceSq(self, subject)
    IN  IF center_distance < 1
        THEN <<SpatialRelation(subject, "samecenter", self, Dist(center_distance),
                               subject.angle - self.angle)>>
        ELSE <<>>

\* _areNearOrFar with near and far exchanged
areFarOrNear(self, subject) ==
    LET center_distance == centerDistanceSq(self, subject)
    IN  IF LtSum(center_distance, nearbyRadiusSq(subject), nearbyRadiusSq(self))
        THEN <<SpatialRelation(subject, "far", self, Dist(center_distance),
                               subject.angle - self.angle)>>
        ELSE <<SpatialRelation(subject, "near", self, Dist(center_distance),
                               subject.angle - self.angle)>>

\* SpatialObject._areNearOrFar
areNearOrFar(self, subject) ==
    LET center_distance == centerDistanceSq(self, subject)
    IN  IF LtSum(center_distance, nearbyRadiusSq(subject), nearbyRadiusSq(self))
        THEN <<SpatialRelation(subject, "near", self, Dist(center_distance),
                               subject.angle - self.angle)>>
        ELSE <<SpatialRelation(subject, "far", self, Dist(center_distance),
                               subject.angle - self.angle)>>

\* no precheck of the bounding spheres
areDisjointNever(self, subject, can_not_overlap) == <<>>
\* SpatialObject._areDisjoint
areDisjoint(self, subject, can_not_overlap) ==
    IF can_not_overlap
    THEN <<SpatialRelation(subject, "disjoint", self,
                           Dist(centerDistanceSq(self, subject)),
                           subject.angle - self.angle)>>
    ELSE <<>>

\* SpatialObject._basicAdjacency
basicAdjacency(self, subject, center_zone) ==
    LET local_center == intoLocal(self, center(subject))
        theta == subject.angle - self.angle
        R(pred, gap) == <<SpatialRelation(subject, pred, self, Lin(gap), theta)>>
    IN  (IF "l" \in center_zone
         THEN R("left", local_center.x - Half(self.width) - Half(subject.width))
         ELSE IF "r" \in center_zone
         THEN R("right", -local_center.x - Half(self.width) - Half(subject.width))
         ELSE <<>>)
        \o
        (IF "a" \in center_zone
         THEN R("ahead", local_center.z - Half(self.depth) - Half(subject.depth))
         ELSE IF "b" \in center_zone
         THEN R("behind", -local_center.z - Half(self.depth) - Half(subject.depth))
         ELSE <<>>)
        \o
        (IF "o" \in center_zone
         THEN R("above", local_center.y - Half(subject.height) - self.height)
         ELSE IF "u" \in center_zone
         THEN R("below", -local_center.y - Half(subject.height))
         ELSE <<>>)

\* BBoxSector.__eq__(other) for an other that is no BBoxSector (here a
\* SpatialPredicate member): always False
SectorEqualsPredicate(zone, pred) == FALSE

\* abs(math.fmod(theta, math.pi/2.0)) < maxAngleDelta, in degrees
sideAligned(self, subject) ==
    Abs(subject.angle - self.angle) % 90 < adjustment(self).maxAngleDelta

\* SpatialObject._catch_side_related_adjacency: the relations it appends
catch_side_related_adjacency(self, subject) ==
    LET theta == subject.angle - self.angle
        maxGap == adjustment(self).maxGap
        local_center == intoLocal(self, center(subject))
        near_zone == sectorOf(self, local_center, TRUE, -maxGap * Fine)
        local_pts == intoLocal_pts(self, points(subject))
        R(pred, gap) == <<SpatialRelation(subject, pred, self, Lin(gap), theta)>>
        side_gap ==
            IF "l" \in near_zone
            THEN SetMin({x - Half(self.width) : x \in Xs(local_pts)})
            ELSE IF "r" \in near_zone
            THEN SetMin({-x - Half(self.width) : x \in Xs(local_pts)})
            ELSE Infinity
        sides ==
            IF ("l" \in near_zone \/ "r" \in near_zone) /\ side_gap >= 0
            THEN R(IF "l" \in near_zone THEN "leftside" ELSE "rightside", side_gap)
            ELSE <<>>
        up_gap == SetMin({y - self.height : y \in Ys(local_pts)})
        down_gap == SetMin({-y : y \in Ys(local_pts)})
        updown ==
            IF "o" \in near_zone
            THEN IF up_gap >= 0
                 THEN (IF up_gap <= maxGap
                       THEN R("ontop", up_gap)
                            \o (IF connectivityOn(self) THEN R("on", up_gap) ELSE <<>>)
                       ELSE <<>>)
                      \o R("upperside", up_gap)
                 ELSE <<>>
            ELSE IF "u" \in near_zone
            THEN IF down_gap >= 0
                 THEN (IF down_gap <= maxGap THEN R("beneath", down_gap) ELSE <<>>)
                      \o R("lowerside", down_gap)
                 ELSE <<>>
            ELSE <<>>
        front_gap == SetMin({z - Half(self.depth) : z \in Zs(local_pts)})
        back_gap == SetMin({-z - Half(self.depth) : z \in Zs(local_pts)})
        frontback ==
            IF "a" \in near_zone
            THEN IF front_gap >= 0 THEN R("frontside", front_gap) ELSE <<>>
            ELSE IF "b" \in near_zone
            THEN IF back_gap >= 0 THEN R("backside", back_gap) ELSE <<>>
            ELSE <<>>
        is_beside == Len(sides) > 0 \/ Len(frontback) > 0
        \* the touching threshold 0.05 m
        beside ==
            IF is_beside
            THEN R("beside", IF side_gap # Infinity THEN side_gap ELSE 0)
                 \o (IF side_gap * 100 <= 5 * Scale THEN R("touching", side_gap) ELSE <<>>)
            ELSE <<>>
    IN  IF ~SectorEqualsPredicate(near_zone, "i")
        THEN sides \o updown \o frontback \o beside
        ELSE <<>>

\* the aligned flag _catch_side_related_adjacency returns
catch_side_aligned(self, subject) ==
    LET local_center == intoLocal(self, center(subject))
        near_zone == sectorOf(self, local_center, TRUE, -adjustment(self).maxGap * Fine)
    IN  ~SectorEqualsPredicate(near_zone, "i") /\ sideAligned(self, subject)

\* Case 2 of _check_Assembly: (subject.radius - self.radius) >
\* center_distance / 2 and the subject larger in each extent
enclosesCase(self, subject) ==
    /\ GtSum(4 * radiusSq(subject), 4 * radiusSq(self), centerDistanceSq(self, subject))
    /\ subject.width > self.width
    /\ subject.height > self.height
    /\ subject.depth > self.depth

\* the overlap along one axis as _check_Assembly computes xlap (strict is
\* FALSE: lower test against -half - maxGap) and zlap (strict is TRUE:
\* lower test against -half)
axisLap(lo, hi, half, maxGap, strict) ==
    IF lo < half + maxGap /\ hi > -half - maxGap
    THEN IF hi < half /\ lo > -half
         THEN hi - lo
         ELSE IF lo > (IF strict THEN -half ELSE -half - maxGap)
              THEN Abs(half - lo)
              ELSE Abs(hi + half)
    ELSE -1

\* Case 3 of _check_Assembly: overlapping, crossing, meeting, touching;
\* the result is the relations appended and the is_disjoint flag
partialCase(self, subject, aligned) ==
    LET theta == subject.angle - self.angle
        maxGap == adjustment(self).maxGap
        center_distance == centerDistanceSq(self, subject)
        can_not_overlap == canNotOverlap(self, subject)
        local_pts == intoLocal_pts(self, points(subject))
        zones == [k \in DOMAIN local_pts |->
                     sectorOf(self, local_pts[k], FALSE, 1)]
        R(pred, delta) == <<SpatialRelation(subject, pred, self, delta, theta)>>
        cnt == Cardinality({k \in DOMAIN zones : "i" \in zones[k]})
        overlapping == cnt > 0 /\ ~can_not_overlap
        min_y == local_pts[1].y
        max_y == local_pts[Len(local_pts)].y
        min_x == SetMin(Xs(local_pts))
        max_x == SetMax(Xs(local_pts))
        min_z == SetMin(Zs(local_pts))
        max_z == SetMax(Zs(local_pts))
        w2 == Half(self.width)
        d2 == Half(self.depth)
        h == self.height
        crossings ==
            (IF min_x < -w2 /\ max_x > w2 /\ min_z < d2 /\ max_z > -d2
                /\ min_y < h /\ max_y > 0 THEN 1 ELSE 0)
            + (IF min_z < -d2 /\ max_z > d2 /\ min_x < w2 /\ max_x > -w2
                  /\ min_y < h /\ max_y > 0 THEN 1 ELSE 0)
            + (IF min_y < 0 /\ max_y > h /\ min_x < w2 /\ max_x > -w2
                  /\ min_z < d2 /\ max_z > -d2 THEN 1 ELSE 0)
        crossing == ~can_not_overlap /\ crossings > 0
        ylap == IF max_y < h /\ min_y > 0 THEN max_y - min_y
                ELSE IF min_y > 0 THEN Abs(h - min_y)
                ELSE Abs(max_y)
        xlap == axisLap(min_x, max_x, w2, maxGap, FALSE)
        zlap == axisLap(min_z, max_z, d2, maxGap, TRUE)
        gap == Min2(xlap, zlap)
        by(g) == IF connectivityOn(self) THEN R("by", Lin(g)) ELSE <<>>
        contact ==
            IF min_y < h + maxGap /\ max_y > -maxGap
            THEN IF ~aligned /\ can_not_overlap /\ gap > 0 /\ gap < maxGap
                 THEN IF \/ max_x < -w2 + maxGap
                         \/ min_x > w2 - maxGap
                         \/ max_z < -d2 + maxGap
                         \/ min_z > d2 - maxGap
                      THEN R("touching", Lin(gap)) \o by(gap)
                      ELSE <<>>
                 ELSE IF xlap >= 0 /\ zlap >= 0
                      THEN IF ylap > maxGap /\ gap < maxGap
                           THEN IF xlap > maxGap \/ zlap > maxGap
                                THEN R("meeting", Lin(Max2(xlap, zlap)))
                                     \o (IF connectivityOn(self)
                                            /\ volume(subject) < volume(self)
                                         THEN R("at", Lin(gap)) ELSE <<>>)
                                ELSE R("touching", Lin(gap)) \o by(gap)
                           ELSE IF xlap > maxGap /\ zlap > maxGap
                                THEN R("meeting", Lin(ylap))
                                ELSE R("touching", Lin(ylap))
                      ELSE <<>>
            ELSE <<>>
    IN  [rels |-> (IF overlapping THEN R("overlapping", Dist(center_distance)) ELSE <<>>)
                  \o (IF crossing THEN R("crossing", Dist(center_distance)) ELSE <<>>)
                  \o contact,
         is_disjoint |-> ~overlapping /\ ~crossing]

\* SpatialObject._check_Assembly: the relations it appends
check_Assembly(self, subject, aligned) ==
    LET theta == subject.angle - self.angle
        center_distance == centerDistanceSq(self, subject)
        local_pts == intoLocal_pts(self, points(subject))
        zones == [k \in DOMAIN local_pts |->
                     sectorOf(self, local_pts[k], FALSE, 1)]
        R(pred, delta) == <<SpatialRelation(subject, pred, self, delta, theta)>>
        partial == partialCase(self, subject, aligned)
        assembly ==
            IF \A k \in DOMAIN zones : "i" \in zones[k]
            THEN [rels |-> R("inside", Dist(center_distance))
                           \o (IF connectivityOn(self)
                               THEN R("in_", Dist(center_distance)) ELSE <<>>),
                  is_disjoint |-> FALSE]
            ELSE IF enclosesCase(self, subject)
            THEN [rels |-> R("containing", Lin(0)), is_disjoint |-> FALSE]
            ELSE partial
    IN  assembly.rels
        \o (IF assembly.is_disjoint
            THEN R("disjoint", Dist(center_distance)) ELSE <<>>)

\* SpatialObject._deduce_orientation; angles are whole degrees, so
\* theta % math.pi is theta % 180
deduce_orientation(self, subject) ==
    LET theta == subject.angle - self.angle
        maxGap == adjustment(self).maxGap
        maxAngleDelta == adjustment(self).maxAngleDelta
        local_center == intoLocal(self, center(subject))
        center_distance == centerDistanceSq(self, subject)
        R(pred, delta) == <<SpatialRelation(subject, pred, self, delta, theta)>>
        front_gap == local_center.z + Half(subject.depth) - Half(self.depth)
        back_gap == local_center.z - Half(subject.depth) + Half(self.depth)
        right_gap == local_center.x - Half(subject.width) + Half(self.width)
        left_gap == local_center.x + Half(subject.width) - Half(self.width)
    IN  IF Abs(theta) < maxAngleDelta
        THEN R("aligned", Lin(local_center.z))
             \o (IF Abs(front_gap) < maxGap
                 THEN R("frontaligned", Lin(front_gap)) ELSE <<>>)
             \o (IF Abs(back_gap) < maxGap
                 THEN R("backaligned", Lin(back_gap)) ELSE <<>>)
             \o (IF Abs(right_gap) < maxGap
                 THEN R("rightaligned", Lin(right_gap)) ELSE <<>>)
             \o (IF Abs(left_gap) < maxGap
                 THEN R("leftaligned", Lin(left_gap)) ELSE <<>>)
        ELSE IF Abs(theta % 180) < maxAngleDelta
        THEN R("opposite", Dist(center_distance))
        ELSE IF Abs(theta % 90) < maxAngleDelta
        THEN R("orthogonal", Dist(center_distance))
        ELSE <<>>

\* int(round(angle_deg / 30)) of _deduce_visibility for the bearing
\* atan2(x, z), after the half-hour shift away from 0. The hour borders
\* are the bearings that are multiples of 30 degrees; x and z are integers,
\* so a bearing lies on a border only on an axis (tan 30 and tan 60 are
\* irrational), where round() goes to the even neighbour: 0.5 to 0, 3.5 to
\* 4, 6.5 to 6. 9 stands for a count outside -4 .. 4.
clockCount(x, z) ==
    LET m == Abs(x)
        c == IF m = 0 THEN (IF z >= 0 THEN 0 ELSE 6)
             ELSE IF z > 0
                  THEN (IF 3 * m * m < z * z THEN 1
                        ELSE IF m * m < 3 * z * z THEN 2 ELSE 3)
                  ELSE IF z = 0 THEN 4
                  ELSE (IF 3 * z * z < m * m THEN 4 ELSE 9)
    IN  IF c > 4 THEN 9 ELSE IF x < 0 THEN -c ELSE c

\* clock_map of _deduce_visibility
clock_map ==
    [k \in -4 .. 4 |->
        CASE k = -4 -> "fouroclock"
          [] k = -3 -> "threeoclock"
          [] k = -2 -> "twooclock"
          [] k = -1 -> "oneoclock"
          [] k = 0 -> "twelveoclock"
          [] k = 1 -> "elevenoclock"
          [] k = 2 -> "tenoclock"
          [] k = 3 -> "nineoclock"
          [] k = 4 -> "eightoclock"]

\* SpatialObject._deduce_visibility; the angle of a clock relation is the
\* bearing atan2(x, z), kept as its two arguments
deduce_visibility(self, subject) ==
    LET center_distance == centerDistanceSq(self, subject)
        c == center(subject)
        rad == [atan2 |-> <<c.x, c.z>>]
        cnt == clockCount(c.x, c.z)
        R(pred) == <<SpatialRelation(subject, pred, self, Dist(center_distance), rad)>>
    IN  IF ~self.context THEN <<>>
        ELSE IF deduce(self).visibility /\ cnt \in DOMAIN clock_map
        THEN R(clock_map[cnt])
             \* center_distance <= 1.25 m
             \o (IF 16 * center_distance <= 25 * Scale * Scale
                 THEN R("tangible") ELSE <<>>)
        ELSE <<>>

\* SpatialObject.topologies
topologies(self, subject) ==
    LET local_center == intoLocal(self, center(subject))
        center_zone == sectorOf(self, local_center, FALSE,
                                -adjustment(self).maxGap * Fine)
        aligned == catch_side_aligned(self, subject)
    IN  haveSameCenter(self, subject)
        \o areNearOrFar(self, subject)
        \o areDisjoint(self, subject, canNotOverlap(self, subject))
        \o basicAdjacency(self, subject, center_zone)
        \o catch_side_related_adjacency(self, subject)
        \o check_Assembly(self, subject, aligned)
        \o deduce_orientation(self, subject)
        \o deduce_visibility(self, subject)

\* ------------------------------------------------------------ similarities
\* minVal < val < maxVal
Between(minVal, val, maxVal) == minVal < val /\ val < maxVal

\* the test under "Same Perimeter": the subject's footprint, in square
\* metres, is compared as a number with sums of lengths in metres; in grid
\* units the sums are multiplied by Scale
samePerimeterTest(self, subject) ==
    LET g == adjustment(self).maxGap
    IN  Between(Scale * ((self.depth - g) + (self.width - g)),
                subject.depth * subject.width,
                Scale * ((self.depth + g) + (self.width + g)))

\* SpatialPredicate.<name> is a member of the enumeration; looking up any
\* other name raises AttributeError
hasMember(name) == name \in DOMAIN SpatialPredicate

\* SpatialObject.similarities: the relations it returns, or raised when it
\* looks up a name that is no member of SpatialPredicate
similarities(self, subject) ==
    LET theta == subject.angle - self.angle
        g == adjustment(self).maxGap
        R(pred, delta) == <<SpatialRelation(subject, pred, self, delta, theta)>>
        centerSq == LengthSq(VSub(center(self), center(subject)))
        positionSq == LengthSq(VSub(self.position, subject.position))
        sameWidth == Abs(self.width - subject.width) < g
        sameDepth == Abs(self.depth - subject.depth) < g
        sameHeight == Abs(self.height - subject.height) < g
        sq(v) == v * v
        surfaceVal == sq(subject.width) + sq(subject.depth) + sq(subject.height)
        volumeVal == subject.width * subject.depth * subject.height
        volumeGap == self.width * self.depth * self.height - volumeVal
        sameVolume ==
            Between((self.width - g) * (self.depth - g) * (self.height - g),
                    volumeVal,
                    (self.width + g) * (self.depth + g) * (self.height + g))
        value ==
            (IF centerSq < g * g THEN R("samecenter", Dist(centerSq)) ELSE <<>>)
            \o (IF positionSq < g * g
                THEN R("sameposition", Dist(positionSq)) ELSE <<>>)
            \o (IF sameWidth
                THEN R("samewidth", Lin(Abs(self.width - subject.width))) ELSE <<>>)
            \o (IF sameDepth
                THEN R("samedepth", Lin(Abs(self.depth - subject.depth))) ELSE <<>>)
            \o (IF sameHeight
                THEN R("sameheight", Lin(Abs(self.height - subject.height)))
                ELSE <<>>)
            \o (IF samePerimeterTest(self, subject)
                THEN R("sameperimeter",
                       Lin(2 * (self.depth * self.width
                                - subject.depth * subject.width)))
                ELSE <<>>)
            \o (IF sameWidth /\ sameDepth /\ sameHeight
                THEN R("samecuboid", Lin(volume(subject) - volume(self)))
                ELSE <<>>)
            \o (IF Abs(length(self) - length(subject)) < g
                THEN R("samelength", Lin(Abs(length(self) - length(subject))))
                ELSE <<>>)
            \o (IF Between((self.height - g) * (self.width - g),
                           subject.height * subject.width,
                           (self.height + g) * (self.width + g))
                THEN R("samefront", Lin(self.height * self.width
                                        - subject.height * subject.width))
                ELSE <<>>)
            \o (IF Between((self.height - g) * (self.depth - g),
                           subject.height * subject.depth,
                           (self.height + g) * (self.depth + g))
                THEN R("sameside", Lin(self.height * self.depth
                                       - subject.height * subject.depth))
                ELSE <<>>)
            \o (IF Between((self.width - g) * (self.depth - g),
                           subject.width * subject.depth,
                           (self.width + g) * (self.depth + g))
                THEN R("samefootprint", Lin(self.width * self.depth
                                            - subject.width * subject.depth))
                ELSE <<>>)
            \o (IF Between(sq(self.width - g) + sq(self.depth - g)
                               + sq(self.height - g),
                           surfaceVal,
                           sq(self.width + g) + sq(self.depth + g)
                               + sq(self.height + g))
                THEN R("samesurface",
                       Lin(2 * (sq(self.width) + sq(self.depth) + sq(self.height)
                                - surfaceVal)))
                ELSE <<>>)
            \o (IF sameVolume
                THEN R("samevolume", Lin(volumeGap))
                     \o (IF sameWidth /\ sameDepth /\ sameHeight
                            /\ positionSq < g * g
                            /\ Abs(self.angle - subject.angle)
                                   < adjustment(self).maxAngleDelta
                         THEN R("congruent", Lin(volumeGap)) ELSE <<>>)
                ELSE <<>>)
            \o (IF self.shape = subject.shape /\ self.shape # "unknown"
                   /\ subject.shape # "unknown"
                THEN R("sameshape", Lin(volumeGap)) ELSE <<>>)
    IN  IF samePerimeterTest(self, subject) /\ ~hasMember("sameperimeter")
        THEN [raised |-> TRUE, value |-> <<>>]
        ELSE [raised |-> FALSE, value |-> value]

\* ------------------------------------------------------------- comparisons
\* the cubic tolerance maxGap ** 3 and the square one maxGap ** 2
Cube(g) == g * g * g
Square(g) == g * g

\* the step of comparisons under "Same Volume"
volumeStep(self, subject) ==
    LET theta == subject.angle - self.angle
        g == adjustment(self).maxGap
        diff == volume(subject) - volume(self)
        R(pred) == <<SpatialRelation(subject, pred, self, Lin(diff), theta)>>
    IN  IF self.width * self.depth * self.height - volume(subject) > Cube(g)
        THEN R("bigger") \o R("exceeding")
        ELSE IF -diff > Cube(g)
        THEN R("smaller")
        ELSE <<>>

\* comparisons without the shorterAdded flag
comparisonsBothShorter(self, subject) ==
    LET theta == subject.angle - self.angle
        g == adjustment(self).maxGap
        R(pred, diff) == <<SpatialRelation(subject, pred, self, Lin(diff), theta)>>
        lengthDiff == length(subject) - length(self)
        longer == lengthDiff * Scale * Scale > Cube(g)
        shorterAdded == ~longer /\ -lengthDiff * Scale * Scale > Cube(g)
        heightDiff == subject.height - self.height
        footprintDiff == footprint(subject) - footprint(self)
        volumeDiff == volume(subject) - volume(self)
    IN  (IF longer THEN R("longer", lengthDiff)
         ELSE IF shorterAdded THEN R("shorter", lengthDiff)
         ELSE <<>>)
        \o (IF heightDiff > g THEN R("taller", heightDiff)
            ELSE IF -heightDiff > g THEN R("shorter", heightDiff)
            ELSE <<>>)
        \o (IF mainDirection(subject) = 2
            THEN IF footprintDiff > Square(g) THEN R("wider", footprintDiff)
                 ELSE IF -footprintDiff > Square(g) THEN R("thinner", footprintDiff)
                 ELSE <<>>
            ELSE <<>>)
        \o volumeStep(self, subject)
        \o (IF self.height > subject.height /\ footprint(self) > footprint(subject)
            THEN R("fitting", volumeDiff) ELSE <<>>)
\* SpatialObject.comparisons; the difference of two lengths, in metres, is
\* compared as a number with maxGap ** 3: in grid units the difference is
\* multiplied by Scale * Scale
comparisons(self, subject) ==
    LET theta == subject.angle - self.angle
        g == adjustment(self).maxGap
        R(pred, diff) == <<SpatialRelation(subject, pred, self, Lin(diff), theta)>>
        lengthDiff == length(subject) - length(self)
        longer == lengthDiff * Scale * Scale > Cube(g)
        shorterAdded == ~longer /\ -lengthDiff * Scale * Scale > Cube(g)
        heightDiff == subject.height - self.height
        footprintDiff == footprint(subject) - footprint(self)
        volumeDiff == volume(subject) - volume(self)
    IN  (IF longer THEN R("longer", lengthDiff)
         ELSE IF shorterAdded THEN R("shorter", lengthDiff)
         ELSE <<>>)
        \o (IF heightDiff > g THEN R("taller", heightDiff)
            ELSE IF -heightDiff > g /\ ~shorterAdded THEN R("shorter", heightDiff)
            ELSE <<>>)
        \o (IF mainDirection(subject) = 2
            THEN IF footprintDiff > Square(g) THEN R("wider", footprintDiff)
                 ELSE IF -footprintDiff > Square(g) THEN R("thinner", footprintDiff)
                 ELSE <<>>
            ELSE <<>>)
        \o volumeStep(self, subject)
        \o (IF self.height > subject.height /\ footprint(self) > footprint(subject)
            THEN R("fitting", volumeDiff) ELSE <<>>)

\* SpatialObject.relate(subject, topology, similarity, comparison): the list
\* of relations, or the exception of similarities. The contexts drawn here
\* have no observer, so that asseen is not called.
relate(self, subject, topology, similarity, comparison) ==
    LET inContext(flag) == self.context /\ flag
        doTopology == \/ topology
                      \/ inContext(deduce(self).topology)
                      \/ inContext(deduce(self).connectivity)
        doSimilarity == similarity \/ inContext(deduce(self).similarity)
        doComparison == comparison \/ inContext(deduce(self).comparability)
    IN  IF doSimilarity /\ similarities(self, subject).raised
        THEN [raised |-> TRUE, value |-> <<>>]
        ELSE [raised |-> FALSE,
              value |-> (IF doTopology THEN topologies(self, subject) ELSE <<>>)
                        \o (IF doSimilarity
                            THEN similarities(self, subject).value ELSE <<>>)
                        \o (IF doComparison
                            THEN comparisons(self, subject) ELSE <<>>)]

\* ----------------------------------------------------------- serialization
\* dict.get(key, default)
Get(d, key, default) == IF key \in DOMAIN d THEN d[key] ELSE default
\* dict.update(other)
Update(d, other) ==
    [k \in DOMAIN d \cup DOMAIN other |->
        IF k \in DOMAIN other THEN other[k] ELSE d[k]]

\* float(x) raises for a string that is no number (ValueError) and for a
\* list, a dict or an enumeration member (TypeError)
FloatRaises(x) == x.t \in {"str", "list", "dict", "enum"}
\* bool(x)
Truth(x) ==
    CASE x.t = "bool" -> x.v
      [] x.t = "num" -> x.v # 0
      [] x.t = "str" -> x.v # ""
      [] x.t = "list" -> Len(x.v) > 0
      [] x.t = "dict" -> DOMAIN x.v # {}
      [] x.t = "enum" -> TRUE

\* the members of the enumerations of SpatialBasics
SpatialExistenceMembers ==
    {"undefined", "real", "virtual", "conceptual", "aggregational"}
ObjectCauseMembers ==
    {"unknown", "plane_detected", "object_detected", "self_tracked",
     "user_captured", "user_generated", "rule_produced", "remote_created"}
ObjectShapeMembers ==
    {"unknown", "planar", "cubical", "spherical", "cylindrical", "conical",
     "irregular", "changing"}

\* <Enum>.named(name): "name in __members__" is true only of a string that
\* names a member; it raises for a list or a dict, which cannot be hashed
NamedRaises(x) == x.t \in {"list", "dict"}
NamedMember(x, members, fallback) ==
    IF x.t = "str" /\ x.v \in members THEN x.v ELSE fallback

\* SpatialObject.stringAttributes, numericAttributes, booleanAttributes
stringAttributes ==
    {"id", "label", "type", "supertype", "existence", "cause", "shape", "look"}
numericAttributes ==
    {"width", "height", "depth", "w", "h", "d", "position", "x", "y", "z",
     "angle", "confidence"}
booleanAttributes ==
    {"immobile", "moving", "focused", "visible", "equilateral", "thin", "long",
     "real", "virtual", "conceptual"}

\* confidence 1.0, in units in which the mean of three drawn values is whole
ConfidenceOne == 300

\* SpatialObject.thin_ratio() with the default ratio
thin_ratio(o, ratio) ==
    LET max_val == Max2(o.width, Max2(o.height, o.depth))
        min_val == Min2(o.width, Min2(o.height, o.depth))
    IN  IF max_val >= min_val * ratio
        THEN IF o.height = min_val /\ o.width > ratio * min_val
                /\ o.depth > ratio * min_val THEN 2
             ELSE IF o.width = min_val /\ o.height > ratio * min_val
                     /\ o.depth > ratio * min_val THEN 1
             ELSE IF o.depth = min_val /\ o.width > ratio * min_val
                     /\ o.height > ratio * min_val THEN 3
             ELSE 0
        ELSE 0

\* SpatialObject.thin: thin_ratio() with the default ratio, which is
\* defaultAdjustment.thinRatio as read when the class was defined
thin(o) == thin_ratio(o, defaultAdjustment.thinRatio) > 0

\* SpatialObject.motion: confidence.spatial > 0.5, and the speed, in metres
\* per second, compared as a number with maxGap
motion(o) ==
    IF o.immobile THEN "stationary"
    ELSE IF o.confidence.pose + o.confidence.dimension > ConfidenceOne
    THEN IF LengthSq(o.velocity) > adjustment(o).maxGap * adjustment(o).maxGap
         THEN "moving" ELSE "idle"
    ELSE "unknown"

\* math.fmod(a, m): the remainder with the sign of a
Fmod(a, m) == IF a >= 0 THEN a % m ELSE -((-a) % m)

\* SpatialObject.azimuth, in degrees; the north of a context is (0, -1),
\* whose bearing atan2(-1, 0) is -90 degrees
azimuth(o) == IF ~o.context THEN 0 ELSE -Fmod(o.angle - 90 - 90, 360)

\* SpatialObject.setData(key, value)
setData(o, key, value) ==
    [o EXCEPT !.data = Update(o.data, [k \in {key} |-> value])]

\* SpatialObject.asDict(); lifespan and updateInterval are the two readings
\* of the clock it takes. "angle" and "yaw" are the same angle in radians and
\* in degrees, here both in degrees.
asDict(o, lifespan, updateInterval) ==
    LET vec(v) == List(<<v.x, v.y, v.z>>)
        output ==
            [id |-> Str(o.id),
             existence |-> Str(o.existence),
             cause |-> Str(o.cause),
             label |-> Str(o.label),
             type |-> Str(o.type),
             supertype |-> Str(o.supertype),
             position |-> vec(o.position),
             center |-> vec(center(o)),
             width |-> Num(o.width),
             height |-> Num(o.height),
             depth |-> Num(o.depth),
             length |-> Num(length(o)),
             direction |-> Num(mainDirection(o)),
             thin |-> Bool(thin_ratio(o, defaultAdjustment.thinRatio) > 0),
             long |-> Bool(long_ratio(o, defaultAdjustment.longRatio) > 0),
             equilateral |-> Bool(long_ratio(o, defaultAdjustment.longRatio) = 0),
             real |-> Bool(o.existence = "real"),
             virtual |-> Bool(o.existence = "virtual"),
             conceptual |-> Bool(o.existence = "conceptual"),
             moving |-> Bool(motion(o) = "moving"),
             perimeter |-> Num((o.depth + o.width) * 2),
             footprint |-> Num(footprint(o)),
             frontface |-> Num(frontface(o)),
             sideface |-> Num(sideface(o)),
             surface |-> Num((o.height * o.width + o.depth * o.width
                              + o.height * o.depth) * 2),
             baseradius |-> Num(Dist(baseradiusSq(o))),
             volume |-> Num(volume(o)),
             radius |-> Num(Dist(radiusSq(o))),
             angle |-> Num(o.angle),
             yaw |-> Num(o.angle),
             azimuth |-> Num(azimuth(o)),
             lifespan |-> Num(lifespan),
             updateInterval |-> Num(updateInterval),
             confidence |-> DictOf(o.confidence),
             immobile |-> Bool(o.immobile),
             velocity |-> vec(o.velocity),
             motion |-> Str(motion(o)),
             shape |-> Str(o.shape),
             look |-> Str(o.look),
             visible |-> Bool(o.visible),
             focused |-> Bool(o.focused)]
    IN  Update(output, o.data)

\* SpatialObject.setPosition(pos); interval is its reading of
\* updateInterval, in milliseconds, and the velocity is in grid units per
\* second
setPosition(o, pos, interval) ==
    IF interval > 3 /\ ~o.immobile
    THEN [o EXCEPT !.velocity =
                       Vector3(((pos.x - o.position.x) * 1000) \div interval,
                               ((pos.y - o.position.y) * 1000) \div interval,
                               ((pos.z - o.position.z) * 1000) \div interval),
                   !.position = pos]
    ELSE [o EXCEPT !.position = pos]

\* ObjectConfidence.value and ObjectConfidence.setValue(value)
confidenceValue(c) == (c.pose + c.dimension + c.label) \div 3
confidenceSetValue(c, value) ==
    [c EXCEPT !.pose = value, !.dimension = value, !.label = value]

\* the statements of fromAny, in order: id, position, width, height, depth,
\* angle, the labels, confidence, cause, existence, immobile, shape, the look
\* and flags, the auxiliary data
fromAnyStatements == 14

\* whether statement k of fromAny raises on object o; float() is what raises
\* for the numbers, <Enum>.named() for the enumerations
fromAnyRaises(k, o, input_data) ==
    CASE k = 2 ->
           LET pos_list == Get(input_data, "position", List(<<>>))
           IN  ~(pos_list.t = "list" /\ Len(pos_list.v) = 3)
               /\ (\/ FloatRaises(Get(input_data, "x", Num(o.position.x)))
                   \/ FloatRaises(Get(input_data, "y", Num(o.position.y)))
                   \/ FloatRaises(Get(input_data, "z", Num(o.position.z))))
      [] k = 3 -> FloatRaises(Get(input_data, "width",
                                  Get(input_data, "w", Num(o.width))))
      [] k = 4 -> FloatRaises(Get(input_data, "height",
                                  Get(input_data, "h", Num(o.height))))
      [] k = 5 -> FloatRaises(Get(input_data, "depth",
                                  Get(input_data, "d", Num(o.depth))))
      [] k = 6 -> FloatRaises(Get(input_data, "angle", Num(o.angle)))
      [] k = 9 -> NamedRaises(Get(input_data, "cause", EnumOf(o.cause)))
      [] k = 10 -> NamedRaises(Get(input_data, "existence", EnumOf(o.existence)))
      [] k = 12 -> NamedRaises(Get(input_data, "shape", EnumOf(o.shape)))
      [] OTHER -> FALSE

\* object o after statement k of fromAny, when the statement does not raise;
\* interval is the reading of the clock setPosition takes. The numbers of the
\* dicts drawn here are numbers of the grid, and a dict under "confidence" is
\* one that ObjectConfidence.asDict produced.
fromAnyEffect(k, o, input_data, interval) ==
    CASE k = 1 ->
           LET id_str == Get(input_data, "id", Str(""))
           IN  IF Truth(id_str) THEN [o EXCEPT !.id = id_str.v] ELSE o
      [] k = 2 ->
           LET pos_list == Get(input_data, "position", List(<<>>))
           IN  IF pos_list.t = "list" /\ Len(pos_list.v) = 3
               THEN setPosition(o, Vector3(pos_list.v[1], pos_list.v[2],
                                           pos_list.v[3]), interval)
               ELSE setPosition(o,
                        Vector3(Get(input_data, "x", Num(o.position.x)).v,
                                Get(input_data, "y", Num(o.position.y)).v,
                                Get(input_data, "z", Num(o.position.z)).v),
                        interval)
      [] k = 3 ->
           [o EXCEPT !.width =
               Get(input_data, "width", Get(input_data, "w", Num(o.width))).v]
      [] k = 4 ->
           [o EXCEPT !.height =
               Get(input_data, "height", Get(input_data, "h", Num(o.height))).v]
      [] k = 5 ->
           [o EXCEPT !.depth =
               Get(input_data, "depth", Get(input_data, "d", Num(o.depth))).v]
      [] k = 6 -> [o EXCEPT !.angle = Get(input_data, "angle", Num(o.angle)).v]
      [] k = 7 ->
           [o EXCEPT !.label = Get(input_data, "label", Str(o.label)).v,
                     !.type = Get(input_data, "type", Str(o.type)).v,
                     !.supertype =
                         Get(input_data, "supertype", Str(o.supertype)).v]
      [] k = 8 ->
           LET current == o.confidence
               confidence_data ==
                   Get(input_data, "confidence", Num(confidenceValue(current)))
           IN  [o EXCEPT !.confidence =
                   IF confidence_data.t = "dict"
                   THEN [c \in DOMAIN current |->
                            Get(confidence_data.v, c, current[c])]
                   ELSE IF FloatRaises(confidence_data)
                   THEN confidenceSetValue(current, confidenceValue(current))
                   ELSE confidenceSetValue(current, confidence_data.v)]
      [] k = 9 ->
           [o EXCEPT !.cause =
               NamedMember(Get(input_data, "cause", EnumOf(o.cause)),
                           ObjectCauseMembers, "unknown")]
      [] k = 10 ->
           [o EXCEPT !.existence =
               NamedMember(Get(input_data, "existence", EnumOf(o.existence)),
                           SpatialExistenceMembers, "undefined")]
      [] k = 11 ->
           [o EXCEPT !.immobile =
               Truth(Get(input_data, "immobile", Bool(o.immobile)))]
      [] k = 12 ->
           [o EXCEPT !.shape =
               NamedMember(Get(input_data, "shape", EnumOf(o.shape)),
                           ObjectShapeMembers, "unknown")]
      [] k = 13 ->
           [o EXCEPT !.look = Get(input_data, "look", Str(o.look)).v,
                     !.visible =
                         Truth(Get(input_data, "visible", Bool(o.visible))),
                     !.focused =
                         Truth(Get(input_data, "focused", Bool(o.focused)))]
      [] k = 14 ->
           LET auxiliary == DOMAIN input_data
                               \ (stringAttributes \cup numericAttributes
                                      \cup booleanAttributes)
           IN  [o EXCEPT !.data =
                   Update(o.data, [key \in auxiliary |-> input_data[key]])]

RECURSIVE fromAnyFrom(_, _, _, _)
\* fromAny from statement k on: an exception ends the call and leaves the
\* object as the statements before it made it
fromAnyFrom(k, o, input_data, interval) ==
    IF k > fromAnyStatements THEN [o |-> o, raised |-> FALSE]
    ELSE IF fromAnyRaises(k, o, input_data) THEN [o |-> o, raised |-> TRUE]
    ELSE fromAnyFrom(k + 1, fromAnyEffect(k, o, input_data, interval),
                     input_data, interval)

\* SpatialObject.fromAny(input_data): the object afterwards, and whether the
\* call raised
fromAny(self, input_data, interval) ==
    fromAnyFrom(1, self, input_data, interval)

\* ------------------------------------------------------------------ state
\* objs: the objects, by name; arg: the arguments of the call under way that
\* are not objects (a point, flags, a tolerance, a dict); ret: what the last
\* call returned; sr: the reasoner, with its adjustment, its deduce
\* flags, its objects, its relation cache, its fact base and its chain.
ObjIds == {"A", "B"}
Pairs == {<<"A", "B">>, <<"B", "A">>}
Halves == 0 .. MaxHalf
Coords == -MaxPos .. MaxPos
Origin == Vector3(0, 0, 0)
NoArg == [kind |-> "none"]
NoRet == [op |-> "none"]
\* no reasoner has been constructed
NoReasoner == [kind |-> "none"]

\* a box given by its half extents
Box(id, hw, hh, hd, position, angle) ==
    SpatialObject(id, position, 2 * hw, 2 * hh, 2 * hd, angle)

\* the tolerances callers hand to sectorOf: the default (use maxGap), 0.0,
\* 0.00001 m, maxGap and -maxGap
Epsilons ==
    {EpsilonDefault, 0, 1, defaultAdjustment.maxGap * Fine,
     -defaultAdjustment.maxGap * Fine}

\* ---------------------------------------------------------------- sectorOf
InitSectorOf ==
    /\ \E hw \in Halves, hh \in Halves, hd \in Halves :
          objs = [n \in ObjIds |-> Box(n, hw, hh, hd, Origin, 0)]
    /\ \E x \in Coords, y \in Coords, z \in Coords,
          nearBy \in BOOLEAN, epsilon \in Epsilons :
          arg = [kind |-> "point", point |-> Vector3(x, y, z),
                 nearBy |-> nearBy, epsilon |-> epsilon]
    /\ ret = NoRet
    /\ sr = NoReasoner

\* zone = self.sectorOf(point, nearBy, epsilon)
SectorOf(self) ==
    /\ arg.kind = "point"
    /\ ret' = [op |-> "sectorOf", self |-> self,
               value |-> sectorOf(objs[self], arg.point, arg.nearBy, arg.epsilon)]
    /\ UNCHANGED <<objs, arg, sr>>

NextSectorOf == \E self \in ObjIds : SectorOf(self)

SpecSectorOf == InitSectorOf /\ [][NextSectorOf]_<<objs, arg, ret, sr>>

\* C9: the sector sectorOf returns is either exactly {inside}, or it holds no
\* inside bit and at most one bit of each opposing pair (left/right,
\* ahead/behind, over/under), so that 0..3 bits are set and divergencies()
\* is in 0..3.
C9_SectorWellFormed ==
    ret.op = "sectorOf" =>
        /\ \/ ret.value = {"i"}
           \/ /\ "i" \notin ret.value
              /\ ~({"l", "r"} \subseteq ret.value)
              /\ ~({"a", "b"} \subseteq ret.value)
              /\ ~({"o", "u"} \subseteq ret.value)
        /\ ret.value \subseteq {"i", "a", "b", "l", "r", "o", "u"}
        /\ Cardinality(ret.value) \in 0 .. 3
        /\ divergencies(ret.value) \in 0 .. 3

\* a call with nearBy set and a positive tolerance that returned three bits
C9_Witness ==
    /\ ret.op = "sectorOf"
    /\ arg.nearBy /\ arg.epsilon > 0
    /\ Cardinality(ret.value) = 3

\* ------------------------------------------------------------------ sector
InitSector ==
    /\ \E hw \in Halves, hh \in Halves, hd \in Halves, k \in Halves,
          x \in Coords, y \in Coords, z \in Coords :
          objs = [A |-> Box("A", hw, hh, hd, Origin, 0),
                  B |-> Box("B", k, k, k, Vector3(x, y, z), 0)]
    /\ \E nearBy \in BOOLEAN, epsilon \in Epsilons :
          arg = [kind |-> "flags", nearBy |-> nearBy, epsilon |-> epsilon]
    /\ ret = NoRet
    /\ sr = NoReasoner

\* relation = self.sector(subject, nearBy, epsilon)
Sector(self, subject) ==
    /\ arg.kind = "flags"
    /\ ret' = [op |-> "sector", self |-> self, subject |-> subject,
               value |-> sector(objs[self], objs[subject], arg.nearBy, arg.epsilon)]
    /\ UNCHANGED <<objs, arg, sr>>

NextSector == \E p \in Pairs : Sector(p[1], p[2])

SpecSector == InitSector /\ [][NextSector]_<<objs, arg, ret, sr>>

RECURSIVE Concat(_)
\* the compact sector code of a list of flag names: a, l gives "al"
Concat(flags) == IF Len(flags) = 0 THEN "" ELSE flags[1] \o Concat(Tail(flags))

\* the zone of the subject's center in the frame of self, as sector computes it
CenterZone(self, subject) ==
    sectorOf(objs[self], intoLocal(objs[self], center(objs[subject])),
             arg.nearBy, arg.epsilon)

\* C4: sector returns the taxonomy entry named by the sector code of the
\* subject's center: a single sector gives i/a/b/l/r/o/u, a composite sector
\* its compact code (al, bru, ...), and undefined only when no bit is set.
C4_SectorPredicate ==
    ret.op = "sector" =>
        LET zone == CenterZone(ret.self, ret.subject)
        IN  /\ ret.value.predicate =
                  (IF zone = {} THEN "undefined" ELSE Concat(list_base_flags(zone)))
            /\ (ret.value.predicate = "undefined" => zone = {})

\* -------------------------------------------------------------- topologies
\* the yaws of the drawn boxes, in degrees
Yaws == {0, 90}

\* the half extents of a drawn slab
Wides == 0 .. MaxWide

\* a pair of cubes, B anywhere around A and possibly turned
CubePairs ==
    {[A |-> Box("A", a, a, a, Origin, 0),
      B |-> Box("B", b, b, b, Vector3(x, y, z), yaw)] :
        a \in Halves, b \in Halves, x \in Coords, y \in Coords, z \in Coords,
        yaw \in Yaws}

\* a pair of slabs of one height on one floor, with the same yaw
SlabPairs ==
    {[A |-> Box("A", hw, 1, hd, Origin, 0),
      B |-> Box("B", 1, 1, sd, Vector3(x, 0, z), 0)] :
        hw \in Wides, hd \in Wides, sd \in Wides, x \in Coords, z \in Coords}

\* a pair of equal cubes on one floor, B on a grid of twice the step
\* around A
SpreadPairs ==
    {[A |-> Box("A", a, a, a, Origin, 0),
      B |-> Box("B", a, a, a, Vector3(2 * x, 0, 2 * z), yaw)] :
        a \in Halves, x \in Coords, z \in Coords, yaw \in Yaws}

InitTopo ==
    /\ objs \in CubePairs \cup SlabPairs \cup SpreadPairs
    /\ arg = NoArg
    /\ ret = NoRet
    /\ sr = NoReasoner

\* relations = self.topologies(subject)
Topologies(self, subject) ==
    /\ ret' = [op |-> "topologies", self |-> self, subject |-> subject,
               value |-> topologies(objs[self], objs[subject])]
    /\ UNCHANGED <<objs, arg, sr>>

NextTopo == \E p \in Pairs : Topologies(p[1], p[2])

SpecTopo == InitTopo /\ [][NextTopo]_<<objs, arg, ret, sr>>

\* the predicates of the relations the last topologies call returned
RetPredicates == {ret.value[k].predicate : k \in DOMAIN ret.value}

C2_InsideContainingInverse ==
    ret.op = "topologies" =>
        ("inside" \in RetPredicates
            <=> "containing" \in
                    Predicates(topologies(objs[ret.subject], objs[ret.self])))

\* the boxes spanned by the corners points() returns have a region of
\* positive volume in common (boxes whose yaw is a multiple of 180 degrees)
intersectInVolume(a, b) ==
    LET pa == points(a)
        pb == points(b)
        lap(sa, sb) == Min2(SetMax(sa), SetMax(sb)) - Max2(SetMin(sa), SetMin(sb))
    IN  /\ lap(Xs(pa), Xs(pb)) > 0
        /\ lap(Ys(pa), Ys(pb)) > 0
        /\ lap(Zs(pa), Zs(pb)) > 0

\* C3: when two boxes of the same yaw have a region of positive volume in
\* common, A.topologies(B) holds no disjoint relation, from the precheck or
\* from the assembly step.
C3_NoDisjointWhenIntersecting ==
    (/\ ret.op = "topologies"
     /\ objs[ret.self].angle = objs[ret.subject].angle
     /\ objs[ret.self].angle % 180 = 0
     /\ intersectInVolume(objs[ret.self], objs[ret.subject]))
        => "disjoint" \notin RetPredicates

\* the subject is a door in the wall self: same yaw and depth, its depth
\* interval the wall's, its width and height intervals within the wall's
doorInWall(self, subject) ==
    LET local_pts == intoLocal_pts(self, points(subject))
    IN  /\ subject.angle = self.angle
        /\ subject.depth = self.depth /\ self.depth > 0
        /\ SetMin(Zs(local_pts)) = -Half(self.depth)
        /\ SetMax(Zs(local_pts)) = Half(self.depth)
        /\ SetMin(Xs(local_pts)) >= -Half(self.width)
        /\ SetMax(Xs(local_pts)) <= Half(self.width)
        /\ SetMin(Ys(local_pts)) >= 0
        /\ SetMax(Ys(local_pts)) <= self.height

\* C7: for a yaw difference below maxAngleDelta, frontaligned is returned
\* exactly when the subject's front face plane, in the frame of self, is
\* within maxGap of the front face plane of self, and backaligned likewise
\* for the back face planes; a door of the wall's depth inside the wall gets
\* inside, frontaligned and backaligned.
C7_FrontBackAligned ==
    (/\ ret.op = "topologies"
     /\ Abs(objs[ret.subject].angle - objs[ret.self].angle)
            < adjustment(objs[ret.self]).maxAngleDelta)
        => LET self == objs[ret.self]
               subject == objs[ret.subject]
               maxGap == adjustment(self).maxGap
               local_pts == intoLocal_pts(self, points(subject))
               front == SetMax(Zs(local_pts))
               back == SetMin(Zs(local_pts))
           IN  /\ "frontaligned" \in RetPredicates
                      <=> Abs(front - Half(self.depth)) < maxGap
               /\ "backaligned" \in RetPredicates
                      <=> Abs(back + Half(self.depth)) < maxGap
               /\ doorInWall(self, subject)
                      => {"inside", "frontaligned", "backaligned"}
                             \subseteq RetPredicates

\* ------------------------------------------- similarities and comparisons
\* the shapes of the drawn boxes
Shapes == {"unknown", "cubical"}

InitCompare ==
    /\ \E hw \in Halves, hh \in Halves, hd \in Halves,
          sw \in Halves, sh \in Halves, sd \in Halves,
          x \in Coords, yaw \in Yaws, shape \in Shapes :
          objs = [A |-> [Box("A", hw, hh, hd, Origin, 0)
                            EXCEPT !.shape = shape],
                  B |-> [Box("B", sw, sh, sd, Vector3(x, 0, 0), yaw)
                            EXCEPT !.shape = "cubical"]]
    /\ arg = NoArg
    /\ ret = NoRet
    /\ sr = NoReasoner

\* relations = self.similarities(subject)
Similarities(self, subject) ==
    /\ ret' = [op |-> "similarities", self |-> self, subject |-> subject,
               raised |-> similarities(objs[self], objs[subject]).raised,
               value |-> similarities(objs[self], objs[subject]).value]
    /\ UNCHANGED <<objs, arg, sr>>

\* relations = self.comparisons(subject)
Comparisons(self, subject) ==
    /\ ret' = [op |-> "comparisons", self |-> self, subject |-> subject,
               raised |-> FALSE,
               value |-> comparisons(objs[self], objs[subject])]
    /\ UNCHANGED <<objs, arg, sr>>

NextCompare ==
    \E p \in Pairs : Similarities(p[1], p[2]) \/ Comparisons(p[1], p[2])

SpecCompare == InitCompare /\ [][NextCompare]_<<objs, arg, ret, sr>>

\* C6: the volume comparison of A.comparisons(B) has the right direction:
\* for B.volume < A.volume - maxGap^3 the result holds smaller and neither
\* bigger nor exceeding, for B.volume > A.volume + maxGap^3 it holds bigger
\* and exceeding and not smaller; bigger and smaller never come together.
C6_VolumeDirection ==
    ret.op = "comparisons" =>
        LET A == objs[ret.self]
            B == objs[ret.subject]
            g == adjustment(A).maxGap
        IN  /\ volume(B) < volume(A) - g * g * g
                   => /\ "smaller" \in RetPredicates
                      /\ "bigger" \notin RetPredicates
                      /\ "exceeding" \notin RetPredicates
            /\ volume(B) > volume(A) + g * g * g
                   => /\ "bigger" \in RetPredicates
                      /\ "exceeding" \in RetPredicates
                      /\ "smaller" \notin RetPredicates
            /\ ~("bigger" \in RetPredicates /\ "smaller" \in RetPredicates)

\* C10: similarities(subject) returns a list of relations and does not
\* raise, for every pair of boxes with extents >= 0, identical boxes,
\* boxes of size zero and boxes with one center among them.
C10_SimilaritiesNeverRaises ==
    ret.op = "similarities" => ~ret.raised

\* ------------------------------------------------------- center and points
InitCenter ==
    /\ \E hw \in Halves, hh \in Halves, hd \in Halves,
          x \in Coords, y \in Coords, z \in Coords, yaw \in Yaws :
          objs = [n \in ObjIds |-> Box(n, hw, hh, hd, Vector3(x, y, z), yaw)]
    /\ arg = NoArg
    /\ ret = NoRet
    /\ sr = NoReasoner

\* value = self.center
Center(self) ==
    /\ ret' = [op |-> "center", self |-> self, value |-> center(objs[self])]
    /\ UNCHANGED <<objs, arg, sr>>

\* value = self.points()
Points(self) ==
    /\ ret' = [op |-> "points", self |-> self, value |-> points(objs[self])]
    /\ UNCHANGED <<objs, arg, sr>>

NextCenter == \E self \in ObjIds : Center(self) \/ Points(self)

SpecCenter == InitCenter /\ [][NextCenter]_<<objs, arg, ret, sr>>

RECURSIVE Sum(_)
\* the sum of a list of numbers
Sum(seq) == IF Len(seq) = 0 THEN 0 ELSE Head(seq) + Sum(Tail(seq))

\* C8: center is the centre of the box whose corners points() returns:
\* center = (position.x, position.y + height/2, position.z), which is the
\* mean of the 8 corners.
C8_CenterIsMeanOfCorners ==
    ret.op = "center" =>
        LET o == objs[ret.self]
            pts == points(o)
        IN  /\ ret.value = Vector3(o.position.x,
                                   o.position.y + Half(o.height),
                                   o.position.z)
            /\ Len(pts) * ret.value.x = Sum([k \in DOMAIN pts |-> pts[k].x])
            /\ Len(pts) * ret.value.y = Sum([k \in DOMAIN pts |-> pts[k].y])
            /\ Len(pts) * ret.value.z = Sum([k \in DOMAIN pts |-> pts[k].z])

\* --------------------------------------------------------- asDict, fromAny
\* the readings of the clock, in milliseconds
Intervals == {0, MaxInterval}
\* keys of the auxiliary data: one of its own, and one that asDict also
\* writes as a field
AuxKeys == {"cycle_attr", "width"}
\* the existence, cause, shape and angle of a drawn object
Kinds ==
    {[existence |-> "real", cause |-> "unknown", shape |-> "unknown",
      angle |-> 0],
     [existence |-> "virtual", cause |-> "object_detected",
      shape |-> "spherical", angle |-> 90]}
\* an auxiliary value: the number 6 or the string "cycle_value"
AuxValue(t) == IF t = "num" THEN Num(6) ELSE Str("cycle_value")
AuxTypes == {"num", "str"}

\* SpatialObject(id): a new object with the default arguments, extents 1.0
Fresh(id) == SpatialObject(id, Origin, Scale, Scale, Scale, 0)

InitRoundTrip ==
    /\ \E hw \in Halves, x \in {0, MaxPos}, kind \in Kinds,
          K \in SUBSET AuxKeys :
          \E t \in [K -> AuxTypes] :
          objs = [A |-> [Box("A", hw, 1, 1, Vector3(x, 0, 0), kind.angle)
                            EXCEPT !.existence = kind.existence,
                                   !.cause = kind.cause, !.shape = kind.shape,
                                   !.data = [k \in K |-> AuxValue(t[k])]],
                  B |-> Fresh("B")]
    /\ arg = NoArg
    /\ ret = NoRet
    /\ sr = NoReasoner

\* obj_dict = self.asDict()
AsDict(self) ==
    /\ \E lifespan \in Intervals, updateInterval \in Intervals :
          /\ updateInterval <= lifespan
          /\ arg' = [kind |-> "dict", of |-> self,
                     dict |-> asDict(objs[self], lifespan, updateInterval)]
    /\ ret' = [op |-> "asDict", self |-> self]
    /\ UNCHANGED <<objs, sr>>

\* self.fromAny(obj_dict)
FromAny(self) ==
    /\ arg.kind = "dict"
    /\ \E interval \in Intervals :
          LET r == fromAny(objs[self], arg.dict, interval)
          IN  /\ objs' = [objs EXCEPT ![self] = r.o]
              /\ ret' = [op |-> "fromAny", self |-> self, of |-> arg.of,
                         fresh |-> objs[self] = Fresh(self),
                         raised |-> r.raised]
    /\ UNCHANGED <<arg, sr>>

NextRoundTrip == \E self \in ObjIds : AsDict(self) \/ FromAny(self)

SpecRoundTrip == InitRoundTrip /\ [][NextRoundTrip]_<<objs, arg, ret, sr>>

\* C5: after N.fromAny(O.asDict()) on a new object N, N has the id,
\* position, extents, angle, existence, cause and shape of O, and the
\* auxiliary data of N are those of O: the same keys with the same values.
C5_RoundTrip ==
    (/\ ret.op = "fromAny" /\ ret.self = "B" /\ ret.of = "A" /\ ret.fresh
     /\ \E lifespan \in Intervals, updateInterval \in Intervals :
           arg.dict = asDict(objs.A, lifespan, updateInterval))
        => LET O == objs.A
               N == objs.B
           IN  /\ N.id = O.id
               /\ N.position = O.position
               /\ N.width = O.width /\ N.height = O.height /\ N.depth = O.depth
               /\ N.angle = O.angle
               /\ N.existence = O.existence
               /\ N.cause = O.cause
               /\ N.shape = O.shape
               /\ DOMAIN N.data = DOMAIN O.data
               /\ \A k \in DOMAIN O.data : N.data[k] = O.data[k]

\* ------------------------------------------------------- fromAny as a merge
\* the keys a drawn input dict may hold, and the value it holds under each
MergeKeys ==
    {"position", "width", "confidence", "cause", "existence", "shape",
     "immobile", "note"}
MergeValue(key) ==
    CASE key = "position" -> List(<<MaxPos, 0, 0>>)
      [] key = "width" -> Num(2 * MaxHalf)
      [] key = "confidence" -> Num(ConfidenceOne)
      [] key = "cause" -> Str("user_generated")
      [] key = "existence" -> Str("conceptual")
      [] key = "shape" -> Str("cubical")
      [] key = "immobile" -> Bool(TRUE)
      [] key = "note" -> Str("cycle_value")

\* the confidences of a drawn object: none, and a sure pose only
Confidences ==
    {[pose |-> 0, dimension |-> 0, label |-> 0, look |-> 0],
     [pose |-> ConfidenceOne, dimension |-> 0, label |-> 0, look |-> 0]}

InitMerge ==
    /\ \E kind \in Kinds, confidence \in Confidences, v \in {0, MaxPos} :
          objs = [n \in ObjIds |->
                     [Box(n, 1, 1, 1, Origin, kind.angle)
                        EXCEPT !.existence = kind.existence,
                               !.cause = kind.cause, !.shape = kind.shape,
                               !.confidence = confidence,
                               !.velocity = Vector3(v, 0, 0)]]
    /\ \E K \in SUBSET MergeKeys :
          arg = [kind |-> "dict", of |-> "none",
                 dict |-> [key \in K |-> MergeValue(key)]]
    /\ ret = NoRet
    /\ sr = NoReasoner

NextMerge == \E self \in ObjIds : FromAny(self)

SpecMerge == InitMerge /\ [][NextMerge]_<<objs, arg, ret, sr>>

\* C11: fromAny is a merge: a field whose key is not in the input dict keeps
\* the value it had (position, extents, angle, labels, the four confidence
\* values, cause, existence, shape, immobile, visible, focused, auxiliary
\* data), and fromAny of the empty dict changes nothing of the object.
C11_FromAnyIsMerge ==
    [][ret'.op = "fromAny" =>
          LET before == objs[ret'.self]
              after == objs'[ret'.self]
              absent(key) == key \notin DOMAIN arg.dict
          IN  /\ (absent("position") /\ absent("x") /\ absent("y") /\ absent("z"))
                     => after.position = before.position
              /\ (absent("width") /\ absent("w")) => after.width = before.width
              /\ (absent("height") /\ absent("h")) => after.height = before.height
              /\ (absent("depth") /\ absent("d")) => after.depth = before.depth
              /\ absent("angle") => after.angle = before.angle
              /\ absent("label") => after.label = before.label
              /\ absent("type") => after.type = before.type
              /\ absent("supertype") => after.supertype = before.supertype
              /\ absent("confidence") => after.confidence = before.confidence
              /\ absent("cause") => after.cause = before.cause
              /\ absent("existence") => after.existence = before.existence
              /\ absent("shape") => after.shape = before.shape
              /\ absent("immobile") => after.immobile = before.immobile
              /\ absent("visible") => after.visible = before.visible
              /\ absent("focused") => after.focused = before.focused
              /\ (DOMAIN arg.dict \subseteq stringAttributes
                      \cup numericAttributes \cup booleanAttributes)
                     => after.data = before.data
              /\ DOMAIN arg.dict = {} => after = before
       ]_<<objs, arg, ret, sr>>

\* ------------------------------------------------- deduction in a context
\* the flags of a drawn reasoner: those of a new one, with connectivity on
\* or off
FlagSets == {[defaultDeduce EXCEPT !.connectivity = c] : c \in BOOLEAN}

\* a plate or box A and a box B of unit width in it, beside it or above it
StackPairs ==
    {[A |-> Box("A", a, ah, a, Origin, 0),
      B |-> Box("B", 1, bh, 1, Vector3(0, y, z), 0)] :
        a \in 1 .. MaxHalf, ah \in 0 .. 1, bh \in 1 .. MaxHalf,
        y \in {0, defaultAdjustment.maxGap}, z \in {-1, 0}}

\* the two objects are in no context, or in the context of one reasoner
InitDeduce ==
    /\ \E pair \in StackPairs :
          \/ objs = pair
          \/ \E flags \in FlagSets :
                objs = [n \in ObjIds |-> InContext(pair[n], flags)]
    /\ arg = [kind |-> "flags", nearBy |-> FALSE, epsilon |-> EpsilonDefault]
    /\ ret = NoRet
    /\ sr = NoReasoner

\* relate that also moves the subject to where its center is
RelateAndMove(self, subject) ==
    \E topology \in BOOLEAN, similarity \in BOOLEAN, comparison \in BOOLEAN :
        /\ ret' = [op |-> "relate", self |-> self, subject |-> subject,
                   topology |-> topology, similarity |-> similarity,
                   comparison |-> comparison]
                  @@ relate(objs[self], objs[subject],
                            topology, similarity, comparison)
        /\ objs' = [objs EXCEPT ![subject].position = center(objs[subject])]
        /\ UNCHANGED <<arg, sr>>
\* relations = self.relate(subject, topology, similarity, comparison)
Relate(self, subject) ==
    \E topology \in BOOLEAN, similarity \in BOOLEAN, comparison \in BOOLEAN :
        /\ ret' = [op |-> "relate", self |-> self, subject |-> subject,
                   topology |-> topology, similarity |-> similarity,
                   comparison |-> comparison]
                  @@ relate(objs[self], objs[subject],
                            topology, similarity, comparison)
        /\ UNCHANGED <<objs, arg, sr>>

\* topologies is called through relate, which returns its relations alone
\* when only the topology flag is set
NextDeduce ==
    \E p \in Pairs :
        \/ Relate(p[1], p[2])
        \/ Similarities(p[1], p[2])
        \/ Comparisons(p[1], p[2])
        \/ Sector(p[1], p[2])

SpecDeduce == InitDeduce /\ [][NextDeduce]_<<objs, arg, ret, sr>>

\* the calls that deduce relations
Deductions == {"relate", "topologies", "similarities", "comparisons", "sector"}

ConnectivityPredicates == {"on", "in_", "by", "at"}

Waits == {0, 2, MaxInterval}

\* SpatialObject.updateInterval at time now, for an object that carries the
\* time of its last update
updateInterval(o, now) == now - o.updated

\* SpatialObject.__init__ at time now: created and updated are set to now
Created(o, now) == [updated |-> now] @@ o

\* arg holds the clock; the objects are made at time 0
InitMotion ==
    /\ \E immobile \in [ObjIds -> BOOLEAN] :
          objs = [n \in ObjIds |->
                     Created([Box(n, 1, 1, 1, Origin, 0)
                                 EXCEPT !.immobile = immobile[n]], 0)]
    /\ arg = [kind |-> "clock", now |-> 0]
    /\ ret = NoRet
    /\ sr = NoReasoner

\* some time passes, then self.setPosition(pos)
SetPosition(self) ==
    \E wait \in Waits, x \in {0, MaxPos} :
        LET now == arg.now + wait
            pos == Vector3(x, 0, 0)
        IN  /\ now <= MaxTime
            /\ arg' = [arg EXCEPT !.now = now]
            /\ objs' = [objs EXCEPT ![self] =
                          setPosition(objs[self], pos,
                                      updateInterval(objs[self], now))]
            /\ ret' = [op |-> "setPosition", self |-> self, pos |-> pos,
                       at |-> now]
            /\ UNCHANGED sr

NextMotion == \E self \in ObjIds : SetPosition(self)

SpecMotion == InitMotion /\ [][NextMotion]_<<objs, arg, ret, sr>>

\* C12: the velocity follows consecutive writes of the position: after
\* setPosition(p1) at time t1 and setPosition(p2) at time t2 on the same
\* object, the velocity is (p2 - p1) / (t2 - t1) when the object is mobile
\* and t2 - t1 is more than 3 ms, and is the velocity of before otherwise;
\* the position is p2 in every case.
C12_VelocityFollowsWrites ==
    [][(/\ ret.op = "setPosition" /\ ret'.op = "setPosition"
        /\ ret'.self = ret.self)
          => LET before == objs[ret'.self]
                 after == objs'[ret'.self]
                 p1 == ret.pos
                 p2 == ret'.pos
                 elapsed == ret'.at - ret.at
             IN  /\ after.position = p2
                 /\ after.velocity =
                       IF elapsed > 3 /\ ~before.immobile
                       THEN Vector3(((p2.x - p1.x) * 1000) \div elapsed,
                                    ((p2.y - p1.y) * 1000) \div elapsed,
                                    ((p2.z - p1.z) * 1000) \div elapsed)
                       ELSE before.velocity
       ]_<<objs, arg, ret, sr>>

AssemblyPredicates ==
    {"inside", "containing", "overlapping", "crossing", "touching", "meeting"}

\* C17: the assembly step of topologies returns at most one of inside,
\* containing, overlapping, crossing, touching, meeting and its own disjoint
\* for a pair; the only other disjoint is the one of the precheck, returned
\* when the distance of the centers is more than the sum of the radii.
C17_OneAssemblyRelation ==
    ret.op = "topologies" =>
        LET self == objs[ret.self]
            subject == objs[ret.subject]
            classified == {k \in DOMAIN ret.value :
                              ret.value[k].predicate \in AssemblyPredicates}
            disjoints == {k \in DOMAIN ret.value :
                             ret.value[k].predicate = "disjoint"}
            prechecked ==
                IF GtSum(LengthSq(VSub(center(subject), center(self))),
                         radiusSq(self), radiusSq(subject))
                THEN 1 ELSE 0
        IN  Cardinality(classified) + Cardinality(disjoints) - prechecked <= 1

\* C18: topologies returns samecenter exactly when the distance of the two
\* centers is less than the adjustment's maxGap, the threshold of
\* similarities.
C18_SameCenterWithinGap ==
    ret.op = "topologies" =>
        LET self == objs[ret.self]
            subject == objs[ret.subject]
            g == adjustment(self).maxGap
        IN  "samecenter" \in RetPredicates
                <=> LengthSq(VSub(center(subject), center(self))) < g * g

\* C19: with nearBy set, sectorOf returns the empty sector exactly when the
\* horizontal distance sqrt(x^2 + z^2) of the point from the vertical axis of
\* the object is more than nearbyRadius(); the y of the point has no
\* influence on it.
C19_NearByIsHorizontal ==
    (ret.op = "sectorOf" /\ arg.nearBy) =>
        LET o == objs[ret.self]
            point == arg.point
        IN  ret.value = {}
                <=> point.x * point.x + point.z * point.z > nearbyRadiusSq(o)

\* ----------------------------------------------------------- mainDirection
\* A is a box of any extents up to 2 * MaxLong, B is a cube
InitDirection ==
    /\ \E hw \in 0 .. MaxLong, hh \in 0 .. MaxLong, hd \in 0 .. MaxLong :
          objs = [A |-> Box("A", hw, hh, hd, Origin, 0),
                  B |-> Box("B", 1, 1, 1, Origin, 0)]
    /\ arg = NoArg
    /\ ret = NoRet
    /\ sr = NoReasoner

\* value = self.mainDirection()
MainDirection(self) ==
    /\ ret' = [op |-> "mainDirection", self |-> self,
               value |-> mainDirection(objs[self])]
    /\ UNCHANGED <<objs, arg, sr>>

NextDirection == \E self \in ObjIds : MainDirection(self)

SpecDirection == InitDirection /\ [][NextDirection]_<<objs, arg, ret, sr>>

Bearings == {0, 90, 175, 180, 185, 270}

\* A is a cube with yaw 0, B a cube at any place around it with any bearing
InitOrientation ==
    /\ \E x \in Coords, z \in Coords, yaw \in Bearings :
          objs = [A |-> Box("A", 1, 1, 1, Origin, 0),
                  B |-> Box("B", 1, 1, 1, Vector3(x, 0, z), yaw)]
    /\ arg = NoArg
    /\ ret = NoRet
    /\ sr = NoReasoner

\* result = self._deduce_orientation(subject, [], aligned), the step of
\* topologies that alone returns opposite and orthogonal
Deduce_orientation(self, subject) ==
    /\ ret' = [op |-> "deduce_orientation", self |-> self, subject |-> subject,
               value |-> deduce_orientation(objs[self], objs[subject])]
    /\ UNCHANGED <<objs, arg, sr>>

NextOrientation == \E p \in Pairs : Deduce_orientation(p[1], p[2])

SpecOrientation == InitOrientation /\ [][NextOrientation]_<<objs, arg, ret, sr>>

\* C20: opposite and orthogonal are symmetric: the orientation step of
\* A.topologies(B) returns opposite exactly when the one of B.topologies(A)
\* does, and likewise orthogonal, whatever the sign of the difference of the
\* yaws.
C20_OrientationSymmetric ==
    ret.op = "deduce_orientation" =>
        \A pred \in {"opposite", "orthogonal"} :
            pred \in RetPredicates
                <=> pred \in Predicates(deduce_orientation(objs[ret.subject],
                                                           objs[ret.self]))

\* ---------------------------------------------------- comparisons of boxes
\* two boxes of any extents at the origin
InitShorter ==
    /\ \E hw \in Halves, hh \in Halves, hd \in Halves,
          sw \in Halves, sh \in Halves, sd \in Halves :
          objs = [A |-> Box("A", hw, hh, hd, Origin, 0),
                  B |-> Box("B", sw, sh, sd, Origin, 0)]
    /\ arg = NoArg
    /\ ret = NoRet
    /\ sr = NoReasoner

NextShorter == \E p \in Pairs : Comparisons(p[1], p[2])

SpecShorter == InitShorter /\ [][NextShorter]_<<objs, arg, ret, sr>>

\* C23: comparisons never returns two shorter relations: for a subject that
\* is shorter both by length and by height only the shorter of the lengths
\* (its delta the difference of the lengths) is returned, and a shorter of
\* the heights is returned only when none of the lengths was.
C23_OneShorter ==
    ret.op = "comparisons" =>
        LET self == objs[ret.self]
            subject == objs[ret.subject]
            g == adjustment(self).maxGap
            lengthDiff == length(subject) - length(self)
            heightDiff == subject.height - self.height
            byLength == -lengthDiff * Scale * Scale > Cube(g)
            byHeight == -heightDiff > g
            shorters == {k \in DOMAIN ret.value :
                            ret.value[k].predicate = "shorter"}
        IN  /\ Cardinality(shorters) <= 1
            /\ byLength =>
                  \E k \in shorters : ret.value[k].delta = Lin(lengthDiff)
            /\ (~byLength /\ byHeight) =>
                  \E k \in shorters : ret.value[k].delta = Lin(heightDiff)
            /\ (~byLength /\ ~byHeight) => shorters = {}

\* comparisons has returned for a subject shorter by length and by height,
\* the two differences being different
C23_Witness ==
    /\ ret.op = "comparisons"
    /\ "shorter" \in RetPredicates
    /\ length(objs[ret.subject]) < length(objs[ret.self])
    /\ objs[ret.subject].height
          < objs[ret.self].height - adjustment(objs[ret.self]).maxGap
    /\ length(objs[ret.subject]) - length(objs[ret.self])
          # objs[ret.subject].height - objs[ret.self].height

\* ------------------------------------------------------- _deduce_visibility
\* the flags of a reasoner after deduce(...) with or without visibility
VisibilityFlagSets == {[defaultDeduce EXCEPT !.visibility = v] : v \in BOOLEAN}

\* A is a cube at the origin, B a point or a cube at any place around it;
\* the two are in no context, or in the context of one reasoner
InitVisibility ==
    /\ \E x \in Coords, z \in Coords, hb \in 0 .. 1 :
          LET pair == [A |-> Box("A", 1, 1, 1, Origin, 0),
                       B |-> Box("B", hb, hb, hb, Vector3(x, 0, z), 0)]
          IN  \/ objs = pair
              \/ \E flags \in VisibilityFlagSets :
                    objs = [n \in ObjIds |-> InContext(pair[n], flags)]
    /\ arg = NoArg
    /\ ret = NoRet
    /\ sr = NoReasoner

\* result = self._deduce_visibility(subject, []), the step of topologies
\* that alone returns the clock predicates
Deduce_visibility(self, subject) ==
    /\ ret' = [op |-> "deduce_visibility", self |-> self, subject |-> subject,
               value |-> deduce_visibility(objs[self], objs[subject])]
    /\ UNCHANGED <<objs, arg, sr>>

NextVisibility == \E p \in Pairs : Deduce_visibility(p[1], p[2])

SpecVisibility == InitVisibility /\ [][NextVisibility]_<<objs, arg, ret, sr>>

\* tan(bearing) < tan(15 degrees) = 2 - sqrt(3) for a bearing of opposite
\* side m >= 0 and adjacent side z > 0
Below15(m, z) == 2 * z - m > 0 /\ 3 * z * z < (2 * z - m) * (2 * z - m)
\* tan(bearing) > tan(15 degrees)
Above15(m, z) == 2 * z - m <= 0 \/ 3 * z * z > (2 * z - m) * (2 * z - m)

\* the hour whose direction 30 * k is nearest to the bearing atan2(x, z),
\* counted like the code counts (positive for positive x); 9 for the hours
\* five, six and seven, 10 for a bearing on a border between two hours
NearestHour(x, z) ==
    LET m == Abs(x)
        n == Abs(z)
        c == IF m = 0 THEN (IF z >= 0 THEN 0 ELSE 9)
             ELSE IF z > 0
                  THEN (IF Below15(m, z) THEN 0
                        ELSE IF Above15(m, z) /\ m < z THEN 1
                        ELSE IF m > z /\ Above15(z, m) THEN 2
                        ELSE IF Below15(z, m) THEN 3
                        ELSE 10)
                  ELSE IF z = 0 THEN 3
                  ELSE (IF Below15(n, m) THEN 3
                        ELSE IF Above15(n, m) /\ n < m THEN 4
                        ELSE IF n > m THEN 9
                        ELSE 10)
    IN  IF c > 4 THEN c ELSE IF x < 0 THEN -c ELSE c

\* the clock predicates
ClockPredicates == {clock_map[k] : k \in DOMAIN clock_map}

\* C21: with visibility on, the clock predicate returned for a bearing is
\* the one of the hour whose direction 30 * k is nearest to the bearing,
\* the borders of the hours lying at the odd multiples of 15 degrees; none
\* is returned for five, six and seven o'clock.
C21_NearestHour ==
    (/\ ret.op = "deduce_visibility"
     /\ objs[ret.self].context /\ deduce(objs[ret.self]).visibility)
        => LET c == center(objs[ret.subject])
               hour == NearestHour(c.x, c.z)
           IN  /\ hour \in DOMAIN clock_map
                     => RetPredicates \cap ClockPredicates = {clock_map[hour]}
               /\ hour = 9 => RetPredicates \cap ClockPredicates = {}

\* ----------------------------------------------- _catch_side_related_adjacency
\* the yaws of the subject, in degrees
SideYaws == {0, 45, 90}

\* A is a box with yaw 0; B is a pole (no width, no depth) with any of the
\* yaws, or a cube with a quarter turn, at any place around A
InitBeside ==
    /\ \E hw \in Halves, hd \in Halves, x \in Coords, z \in Coords,
          hb \in 0 .. 1, yaw \in SideYaws :
          /\ hb = 0 \/ yaw # 45
          /\ objs = [A |-> Box("A", hw, 1, hd, Origin, 0),
                     B |-> Box("B", hb, 1, hb, Vector3(x, 0, z), yaw)]
    /\ arg = NoArg
    /\ ret = NoRet
    /\ sr = NoReasoner

\* (aligned, result) = self._catch_side_related_adjacency(subject, [])
Catch_side_related_adjacency(self, subject) ==
    /\ ret' = [op |-> "catch_side_related_adjacency",
               self |-> self, subject |-> subject,
               aligned |-> catch_side_aligned(objs[self], objs[subject]),
               value |-> catch_side_related_adjacency(objs[self],
                                                      objs[subject])]
    /\ UNCHANGED <<objs, arg, sr>>

\* A, whose yaw is 0, is the object and B the subject
NextBeside == Catch_side_related_adjacency("A", "B")

SpecBeside == InitBeside /\ [][NextBeside]_<<objs, arg, ret, sr>>

\* the side predicates that make a subject beside
SidePredicates == {"leftside", "rightside", "frontside", "backside"}

\* C22: the side-adjacency step returns beside at most once for a pair, and
\* only if the difference of the yaws modulo 90 degrees is within
\* maxAngleDelta (to either side) and one of leftside, rightside, frontside
\* and backside was returned too.
C22_BesideNeedsAlignedSide ==
    ret.op = "catch_side_related_adjacency" =>
        LET self == objs[ret.self]
            subject == objs[ret.subject]
            turn == (subject.angle - self.angle) % 90
            within == turn < adjustment(self).maxAngleDelta
                      \/ 90 - turn < adjustment(self).maxAngleDelta
            besides == {k \in DOMAIN ret.value :
                           ret.value[k].predicate = "beside"}
        IN  /\ Cardinality(besides) <= 1
            /\ besides # {}
                  => within /\ RetPredicates \cap SidePredicates # {}

\* ---------------------------------------------------------- SpatialReasoner
\* SpatialReasoner.__init__: its own adjustment and deduce flags, no objects,
\* an empty relation cache, chain and fact base
SpatialReasoner ==
    [kind |-> "reasoner",
     adjustment |-> defaultAdjustment, deduce |-> defaultDeduce,
     objects |-> <<>>, relMap |-> <<>>, chain |-> <<>>, base |-> <<>>]

\* an object as its methods see it through self.context: the adjustment and
\* the deduce flags are those of the reasoner r it has as context
seen(o, r) ==
    IF o.context
    THEN [adjustment |-> r.adjustment, deduce |-> r.deduce] @@ o
    ELSE o

\* SpatialReasoner.load(objs): the objects get the reasoner as context, the
\* relation cache is emptied and the fact base is filled with their dicts
load(r, objects) ==
    LET loaded == [i \in DOMAIN objects |->
                      [objects[i] EXCEPT !.context = TRUE]]
    IN  [r EXCEPT !.objects = loaded, !.relMap = <<>>,
                  !.base = [i \in DOMAIN loaded |->
                               asDict(seen(loaded[i], r), 0, 0)]]

\* a setting of adjust(): the first and second word and the number, which is
\* written in hundredths and is <<>> when the setting has no third word
Setting(first, second, number) ==
    [first |-> first, second |-> second, number |-> number]

\* one setting of SpatialReasoner.adjust, for the words "max gap", "nearby
\* ..." , "long ratio" and "thin ratio" and for an unknown first word; the
\* number is a float. The adjustment afterwards, and the error text being set.
adjustOne(adj, setting) ==
    LET first == setting.first
        second == setting.second
        number == setting.number
        val == number[1]
        schemas == {"fixed", "circle", "sphere", "perimeter", "area"}
        set_factor == second # "limit"
        withSchema == IF second \in schemas
                      THEN [adj EXCEPT !.nearbySchema = Str(second)] ELSE adj
        withLimit == IF second = "limit" /\ number # <<>>
                     THEN [withSchema EXCEPT !.nearbyLimit = val]
                     ELSE withSchema
    IN  CASE first = "max" /\ second = "gap" ->
               [adj |-> IF number # <<>> THEN [adj EXCEPT !.maxGap = val]
                        ELSE adj,
                error |-> FALSE]
          [] first = "nearby" /\ second \in schemas \cup {"factor", "limit"} ->
               [adj |-> IF set_factor /\ number # <<>>
                        THEN [withLimit EXCEPT !.nearbyFactor = val \div Scale]
                        ELSE withLimit,
                error |-> FALSE]
          [] first = "nearby" /\ second \notin schemas \cup {"factor", "limit"} ->
               [adj |-> IF number # <<>>
                        THEN [adj EXCEPT !.nearbyFactor = val \div Scale]
                        ELSE adj,
                error |-> TRUE]
          [] first = "long" ->
               [adj |-> IF second = "ratio" /\ number # <<>>
                        THEN [adj EXCEPT !.longRatio = val \div Scale] ELSE adj,
                error |-> FALSE]
          [] first = "thin" ->
               [adj |-> IF second = "ratio" /\ number # <<>>
                        THEN [adj EXCEPT !.thinRatio = val \div Scale] ELSE adj,
                error |-> FALSE]
          [] OTHER -> [adj |-> adj, error |-> TRUE]

RECURSIVE adjustFrom(_, _, _, _)
\* the loop of adjust over the settings from the k-th on
adjustFrom(k, adj, settings, error) ==
    IF k > Len(settings) THEN [adj |-> adj, ok |-> ~error]
    ELSE LET one == adjustOne(adj, settings[k])
         IN  adjustFrom(k + 1, one.adj, settings, error \/ one.error)

\* SpatialReasoner.adjust(settings): the reasoner afterwards and what the call
\* returns. It writes the reasoner's adjustment and nothing else.
adjust(r, settings) ==
    LET done == adjustFrom(1, r.adjustment, settings, FALSE)
    IN  [r |-> [r EXCEPT !.adjustment = done.adj], ok |-> done.ok]

\* -------------------------------------------------------------- adjustment
\* the settings drawn: 'long ratio 2', 'thin ratio 5', 'nearby <schema> 1',
\* 'nearby limit 1' and 'turn'
Settings ==
    {Setting("long", "ratio", <<2 * Scale>>),
     Setting("thin", "ratio", <<5 * Scale>>),
     Setting("nearby", "limit", <<Scale>>),
     Setting("turn", "", <<>>)}
    \cup {Setting("nearby", schema, <<Scale>>) :
            schema \in {"fixed", "circle", "sphere", "perimeter", "area"}}

\* the objects that are read: those of objs, which have no context, and those
\* of the reasoner
ObjNames == <<"A", "B">>
Refs == {[of |-> where, at |-> i] : where \in {"objs", "sr"}, i \in 1 .. 2}
\* the objects that are assigned an adjustment
Assigned == {ref \in Refs : ref.at = 1}
\* the object of a reference as its methods see it
object(ref) ==
    IF ref.of = "objs" THEN objs[ObjNames[ref.at]]
    ELSE seen(sr.objects[ref.at], sr)

\* an adjustment that is not the default one and not the reasoner's
OtherAdjustment ==
    [defaultAdjustment EXCEPT !.maxGap = 50, !.nearbySchema = EnumOf("fixed"),
                              !.nearbyFactor = 7]

\* A is a long box (1 : 1 : 3), a slab (6 : 6 : 1), a cube or a post, B is a cube;
\* two such objects are left without context and two are loaded
InitAdjust ==
    /\ \E shape \in {<<1, 1, 3>>, <<6, 6, 1>>, <<1, 1, 1>>, <<1, 4, 1>>},
          hb \in {1, 2} :
          /\ objs = [A |-> Box("A", shape[1], shape[2], shape[3], Origin, 0),
                     B |-> Box("B", hb, hb, hb, Vector3(4 * Scale, 0, 0), 0)]
          /\ sr = load(SpatialReasoner, <<objs.A, objs.B>>)
    /\ arg = NoArg
    /\ ret = NoRet

\* ok = sr.adjust(setting)
Adjust ==
    \E setting \in Settings :
        LET done == adjust(sr, <<setting>>)
        IN  /\ sr' = done.r
            /\ ret' = [op |-> "adjust", setting |-> setting, value |-> done.ok]
            /\ UNCHANGED <<objs, arg>>

\* object.adjustment = X
SetAdjustment(ref) ==
    /\ IF ref.of = "objs"
       THEN /\ objs' = [objs EXCEPT ![ObjNames[ref.at]] =
                                set_adjustment(@, OtherAdjustment)]
            /\ UNCHANGED sr
       ELSE /\ sr' = [sr EXCEPT !.objects[ref.at] =
                                    set_adjustment(@, OtherAdjustment)]
            /\ UNCHANGED objs
    /\ ret' = [op |-> "set_adjustment", ref |-> ref]
    /\ UNCHANGED arg

\* value = object.adjustment
GetAdjustment(ref) ==
    /\ ret' = [op |-> "adjustment", ref |-> ref,
               value |-> adjustment(object(ref))]
    /\ UNCHANGED <<objs, arg, sr>>

\* value = object.mainDirection(), .long, .thin, .equilateral
Proportions(ref) ==
    /\ \E name \in {"mainDirection", "long", "thin", "equilateral"} :
          ret' = [op |-> name, ref |-> ref,
                  value |-> CASE name = "mainDirection" ->
                                    mainDirection(object(ref))
                              [] name = "long" -> long(object(ref))
                              [] name = "thin" -> thin(object(ref))
                              [] OTHER -> equilateral(object(ref))]
    /\ UNCHANGED <<objs, arg, sr>>

\* value = object.nearbyRadius(), as its square
NearbyRadius(ref) ==
    /\ ret' = [op |-> "nearbyRadius", ref |-> ref,
               value |-> nearbyRadiusSq(object(ref))]
    /\ UNCHANGED <<objs, arg, sr>>

NextAdjust ==
    \/ Adjust
    \/ \E ref \in Assigned : SetAdjustment(ref)
    \/ \E ref \in Refs :
          \/ GetAdjustment(ref)
          \/ Proportions(ref)
          \/ NearbyRadius(ref)

SpecAdjust == InitAdjust /\ [][NextAdjust]_<<objs, arg, ret, sr>>

\* C24: long and thin follow the adjustment in force: once the reasoner's
\* longRatio or thinRatio has been changed by adjust, mainDirection(), long,
\* thin and equilateral of an object of that reasoner are those of the new
\* ratio.
C24_RatiosInForce ==
    (ret.op \in {"mainDirection", "long", "thin", "equilateral"}
        /\ ret.ref.of = "sr") =>
        LET o == object(ret.ref)
            direction == long_ratio(o, adjustment(o).longRatio)
        IN  ret.value = CASE ret.op = "mainDirection" -> direction
                          [] ret.op = "long" -> direction > 0
                          [] ret.op = "thin" ->
                                thin_ratio(o, adjustment(o).thinRatio) > 0
                          [] OTHER -> direction = 0

\* C25: an adjustment X assigned to object.adjustment is the one the object
\* uses from then on: reading object.adjustment gives X, and nearbyRadius()
\* is the one of X's nearby settings.
C25_AssignedAdjustment ==
    /\ (ret.op = "adjustment" /\ "_adjustment" \in DOMAIN object(ret.ref))
          => ret.value = object(ret.ref)._adjustment
    /\ (ret.op = "nearbyRadius" /\ "_adjustment" \in DOMAIN object(ret.ref))
          => ret.value = OtherAdjustment.nearbyFactor * Scale
                         * OtherAdjustment.nearbyFactor * Scale

\* C26: after adjust('nearby fixed F') nearbyRadius() of every object of the
\* reasoner is F, and after 'nearby circle', 'sphere', 'perimeter' or 'area'
\* it is the radius of that schema with the factor set.
C26_NearbyFollowsAdjust ==
    (/\ ret.op = "nearbyRadius" /\ ret.ref.of = "sr"
     /\ sr.adjustment.nearbySchema.t = "str") =>
        LET o == sr.objects[ret.ref.at]
            f == sr.adjustment.nearbyFactor
            lim == sr.adjustment.nearbyLimit * sr.adjustment.nearbyLimit
            schema == sr.adjustment.nearbySchema.v
        IN  ret.value =
              CASE schema = "fixed" -> f * Scale * f * Scale
                [] schema = "circle" -> Min2(f * f * baseradiusSq(o), lim)
                [] schema = "sphere" -> Min2(f * f * radiusSq(o), lim)
                [] schema = "perimeter" ->
                     Min2((o.height + o.width) * f * (o.height + o.width) * f,
                          lim)
                [] OTHER ->
                     Min2(((o.height * o.width * f) \div Scale)
                          * ((o.height * o.width * f) \div Scale), lim)

\* ---------------------------------------------------------- relation cache
RECURSIVE relationsFrom(_, _, _)
\* the loop of relations_of over the subjects from the k-th on: the relations
\* of objects[idx] with every other object. The flags drawn leave similarity
\* off, so that relate does not raise.
relationsFrom(r, idx, k) ==
    IF k > Len(r.objects) THEN <<>>
    ELSE (IF k # idx
          THEN relate(seen(r.objects[idx], r), seen(r.objects[k], r),
                      FALSE, FALSE, FALSE).value
          ELSE <<>>)
         \o relationsFrom(r, idx, k + 1)

\* SpatialReasoner.relations_of(idx): the reasoner afterwards, whose
\* relMap[idx] is what the call returns: the cached list when there is one,
\* else relations, the list relate computes
relations_of(r, idx, relations) ==
    [r EXCEPT !.relMap = @ @@ (idx :> relations)]

\* SpatialReasoner.deduce_categories(categories); "topo" in categories and
\* the like are decided on the names of the categories the string holds
deduce_categories(r, categories) ==
    [r EXCEPT !.deduce =
        [topology |-> "topology" \in categories,
         connectivity |-> "connectivity" \in categories,
         comparability |-> "comparability" \in categories,
         similarity |-> "similarity" \in categories,
         sectoriality |-> "sectoriality" \in categories,
         visibility |-> "visibility" \in categories,
         geography |-> "geography" \in categories]]

\* the categories drawn for deduce_categories
CategorySets == {{"topology"}, {"comparability"}, {"topology", "connectivity"}}
\* the settings drawn for adjust: 'max gap 0.5', 'nearby fixed 1'
CacheSettings ==
    {Setting("max", "gap", <<50>>), Setting("nearby", "fixed", <<Scale>>)}

\* two boxes side by side, 1 to 4 cm apart, loaded into a reasoner
InitCache ==
    /\ \E ha \in 1 .. 2, x \in 3 .. 6, y \in 0 .. 1 :
          /\ objs = [A |-> Box("A", ha, 1, 1, Origin, 0),
                     B |-> Box("B", 1, 1, 1, Vector3(x, y, 0), 0)]
          /\ sr = load(SpatialReasoner, <<objs.A, objs.B>>)
    /\ arg = NoArg
    /\ ret = NoRet

\* relations = sr.relations_of(idx); arg keeps the list relate computes at
\* the moment of the call, which the code computes only without a cached one
Relations_of(idx) ==
    /\ arg' = [kind |-> "relations", of |-> idx,
               computed |-> relationsFrom(sr, idx, 1)]
    /\ sr' = relations_of(sr, idx, arg'.computed)
    /\ ret' = [op |-> "relations_of", idx |-> idx, value |-> sr'.relMap[idx]]
    /\ UNCHANGED objs

\* ok = sr.adjust(setting)
AdjustCache ==
    \E setting \in CacheSettings :
        /\ sr' = adjust(sr, <<setting>>).r
        /\ ret' = [op |-> "adjust", setting |-> setting]
        /\ UNCHANGED <<objs, arg>>

\* sr.deduce_categories(categories)
Deduce_categories ==
    \E categories \in CategorySets :
        /\ sr' = deduce_categories(sr, categories)
        /\ ret' = [op |-> "deduce_categories", categories |-> categories]
        /\ UNCHANGED <<objs, arg>>

NextCache ==
    \/ \E idx \in 1 .. 2 : Relations_of(idx)
    \/ AdjustCache
    \/ Deduce_categories

SpecCache == InitCache /\ [][NextCache]_<<objs, arg, ret, sr>>

\* C27: the relation cache is coherent with the settings: whenever
\* relations_of(i) returns, its list is the one relate computes then for the
\* object over every other object, under the adjustment and the deduce flags
\* the reasoner has at that moment.
C27_CacheCoherent ==
    ret.op = "relations_of" => ret.value = arg.computed

\* ---------------------------------------------------------- fact base, run
\* Indices of objects count from 1 here and from 0 in the code, and None as
\* an index is 0. Every call of one run reads the clock within the same
\* millisecond (interval 0). A value that a method reads more than once is
\* handed to an operator as its parameter.
\* SpatialReasoner.index_of_id(id)
index_of_id(r, id) ==
    LET found == {i \in DOMAIN r.objects : r.objects[i].id = id}
    IN  IF found = {} THEN 0 ELSE SetMin(found)

\* SpatialReasoner.sync_to_objects(): the objects are built anew from the
\* dicts of the fact base, each as SpatialObject(id).fromAny(dict); the
\* relation cache is emptied
sync_to_objects(r) ==
    [r EXCEPT !.relMap = <<>>,
              !.objects = [i \in DOMAIN r.base |->
                              fromAny(Fresh(r.base[i].id.v), r.base[i], 0).o]]

\* SpatialReasoner.load_from_dicts(objs)
load_from_dicts(r, dicts) == sync_to_objects([r EXCEPT !.base = dicts])

\* SpatialReasoner.load(): the objects the reasoner has are loaded again
reloadObjects(r) == load(r, r.objects)

\* SpatialInference.__init__ before the operation is dispatched
SpatialInference(input_indices, operation) ==
    [input |-> input_indices, output |-> <<>>, operation |-> operation,
     succeeded |-> FALSE, error |-> ""]

\* SpatialInference.add(index) on the output list
add(output, index) ==
    IF \E k \in DOMAIN output : output[k] = index THEN output
    ELSE Append(output, index)

RECURSIVE addFrom(_, _, _)
\* self.add(index) for the indices from the k-th on
addFrom(k, output, indices) ==
    IF k > Len(indices) THEN output
    ELSE addFrom(k + 1, add(output, indices[k]), indices)

\* an operation of a pipeline: its name and what stands in the parentheses
Op(name, content) == [name |-> name, content |-> content]

\* SpatialInference.filter(condition): a condition is "<key> > <low>" on a
\* numeric attribute, or one that attribute_predicate cannot compile
filter(inf, r, condition) ==
    IF condition.kind = "invalid"
    THEN [inf |-> [inf EXCEPT !.error = "Invalid filter condition"], r |-> r]
    ELSE [inf |-> [inf EXCEPT
                      !.output =
                          addFrom(1, <<>>,
                                  SelectSeq(inf.input,
                                            LAMBDA i :
                                                Get(r.base[i], condition.key,
                                                    Num(0)).v > condition.low)),
                      !.succeeded = TRUE],
          r |-> r]

\* the dict of an object after the assignments: each is "<key> = <name>", and
\* eval looks the name up in the dict as it was before the assignments
assigned(merged, assignments) ==
    Update(merged,
           [key \in {assignments[a].key : a \in DOMAIN assignments} |->
               merged[assignments[SetMax({a \in DOMAIN assignments :
                                            assignments[a].key = key})].name]])

RECURSIVE assignFrom(_, _, _, _, _)
\* self.fact.objects[i].fromAny(obj_dict); base_objects[i] = obj_dict, and
\* the rest of the loop
assignTo(k, inf, r, assignments, indices, obj_dict) ==
    assignFrom(k + 1, inf,
               [r EXCEPT !.objects[indices[k]] = fromAny(@, obj_dict, 0).o,
                         !.base[indices[k]] = obj_dict],
               assignments, indices)

\* the loop of assign over the indices from the k-th on; eval raises for a
\* name that is no key of the dict, which ends the call with the error and
\* leaves the objects and dicts assigned before
assignFrom(k, inf, r, assignments, indices) ==
    IF k > Len(indices) THEN [inf |-> inf, r |-> r]
    ELSE IF \E a \in DOMAIN assignments :
                assignments[a].name \notin DOMAIN r.base[indices[k]]
    THEN [inf |-> [inf EXCEPT !.error = "Assign evaluation error"], r |-> r]
    ELSE assignTo(k, inf, r, assignments, indices,
                  assigned(r.base[indices[k]], assignments))

\* SpatialInference.assign(assignments, indices)
assign(inf, r, assignments, indices) ==
    assignFrom(1, inf, r, assignments, indices)

\* map after the assignments: self.fact.load(), the output, succeeded
mapDone(done) ==
    [inf |-> [done.inf EXCEPT !.output = done.inf.input,
                              !.succeeded = done.inf.input # <<>>],
     r |-> reloadObjects(done.r)]

\* SpatialInference.map(assignments)
map(inf, r, assignments) == mapDone(assign(inf, r, assignments, inf.input))

RECURSIVE copyFrom(_, _, _, _)
\* the copy is appended to the objects, its index and its dict to the new
\* ones, and the rest of the loop
copyAppend(k, input, r, new, copy_obj) ==
    copyFrom(k + 1, input,
             [r EXCEPT !.objects = Append(@, copy_obj)],
             [indices |-> Append(new.indices, Len(r.objects) + 1),
              objects |-> Append(new.objects, asDict(copy_obj, 0, 0))])

\* the loop of produce(copy) over the input from the k-th on: the objects of
\* the reasoner afterwards, and the indices and the dicts of the new ones.
\* copy_obj = SpatialObject(id=copy_id); copy_obj.fromAny(original.asDict())
copyFrom(k, input, r, new) ==
    IF k > Len(input) THEN [r |-> r, new |-> new]
    ELSE IF index_of_id(r, "copy:" \o r.objects[input[k]].id) # 0
    THEN copyFrom(k + 1, input, r, new)
    ELSE copyAppend(k, input, r, new,
                    [fromAny(Fresh("copy:" \o r.objects[input[k]].id),
                             asDict(seen(r.objects[input[k]], r), 0, 0), 0).o
                        EXCEPT !.cause = "rule_produced"])

RECURSIVE sortedByVolume(_)
\* the first of the largest objects, then the others sorted
largestFirst(objects, first) ==
    <<objects[first]>>
    \o sortedByVolume([j \in 1 .. Len(objects) - 1 |->
                          objects[IF j < first THEN j ELSE j + 1]])

\* sorted(input_objs, key=volume, reverse=True): the largest first, equal
\* volumes in the order of the input
sortedByVolume(objects) ==
    IF Len(objects) = 0 THEN <<>>
    ELSE largestFirst(objects,
                      SetMin({k \in DOMAIN objects :
                                \A j \in DOMAIN objects :
                                    volume(objects[j]) <= volume(objects[k])}))

\* SpatialObject.rotShift(rad, dx, dy, dz)
rotShift(o, angle, dx, dy, dz) ==
    [o EXCEPT !.position =
        Vector3(o.position.x + dx * Cos(angle) - dz * Sin(angle),
                o.position.y + dy,
                o.position.z + dx * Sin(angle) + dz * Cos(angle))]

\* the box around the largest object and the corners pts of the others,
\* which are in the frame of the largest
groupBox(largest, pts) ==
    LET min_x == SetMin({-Half(largest.width)} \cup {pt.x : pt \in pts})
        max_x == SetMax({Half(largest.width)} \cup {pt.x : pt \in pts})
        min_y == SetMin({0} \cup {pt.y : pt \in pts})
        max_y == SetMax({largest.height} \cup {pt.y : pt \in pts})
        min_z == SetMin({-Half(largest.depth)} \cup {pt.z : pt \in pts})
        max_z == SetMax({Half(largest.depth)} \cup {pt.z : pt \in pts})
    IN  [w |-> max_x - min_x, h |-> max_y - min_y, d |-> max_z - min_z,
         dx |-> min_x + Half(max_x - min_x), dy |-> Half(min_y),
         dz |-> min_z + Half(max_z - min_z)]

\* the group object placed and sized: setPosition, rotShift, the angle, the
\* extents and the cause
grouped(group_obj, largest, g) ==
    [rotShift(setPosition(group_obj, largest.position, 0),
              largest.angle, g.dx, g.dy, g.dz)
        EXCEPT !.angle = largest.angle, !.width = g.w, !.height = g.h,
               !.depth = g.d, !.cause = "rule_produced"]

\* the group object is the one that has the id of the group, or a new one
\* at the end of the objects
groupAt(r, group_id, obj_idx, largest, g) ==
    IF obj_idx # 0
    THEN [r |-> [r EXCEPT !.objects[obj_idx] = grouped(@, largest, g)],
          new |-> [indices |-> <<>>, objects |-> <<>>]]
    ELSE [r |-> [r EXCEPT !.objects =
                              Append(@, grouped(Fresh(group_id), largest, g))],
          new |-> [indices |-> <<Len(r.objects) + 1>>,
                   objects |-> <<asDict(grouped(Fresh(group_id), largest, g),
                                        0, 0)>>]]

\* produce(group) on the input sorted by volume; the id is "group:" and the
\* ids joined by "+"
groupSorted(r, sorted_objs, group_id) ==
    groupAt(r, group_id, index_of_id(r, group_id), sorted_objs[1],
            groupBox(sorted_objs[1],
                     {intoLocal(sorted_objs[1], points(sorted_objs[k])[c]) :
                         k \in 2 .. Len(sorted_objs), c \in 1 .. 8}))

\* the ids of the objects, in their order
idsOf(objects) == [k \in DOMAIN objects |-> objects[k].id]

\* produce(group) with a non-empty input
groupFrom(input, r) ==
    groupSorted(r,
                sortedByVolume([k \in DOMAIN input |-> r.objects[input[k]]]),
                "group:" \o Join(idsOf(sortedByVolume(
                                [k \in DOMAIN input |-> r.objects[input[k]]]))))

\* produce after the assignments: the output, self.fact.load(), succeeded
produceDone(input, new_indices, done) ==
    [inf |-> [done.inf EXCEPT !.output = addFrom(1, input, new_indices),
                              !.succeeded = done.inf.error = ""],
     r |-> reloadObjects(done.r)]

\* produce after the rule: the dicts of the new objects are added to the
\* fact base, and the assignments are made on the new objects
produceMade(inf, assignments, made) ==
    produceDone(inf.input, made.new.indices,
                IF assignments # <<>> /\ made.new.indices # <<>>
                THEN assign(inf,
                            [made.r EXCEPT !.base = @ \o made.new.objects],
                            assignments, made.new.indices)
                ELSE [inf |-> inf,
                      r |-> [made.r EXCEPT !.base = @ \o made.new.objects]])

\* SpatialInference.produce(terms) for the rules group and copy and for an
\* unknown rule; terms are the rule and the assignments
produce(inf, r, terms) ==
    IF terms.rule = "group" /\ inf.input = <<>>
    THEN [inf |-> [inf EXCEPT !.output = inf.input, !.succeeded = TRUE],
          r |-> r]
    ELSE IF terms.rule = "group"
    THEN produceMade(inf, terms.assignments, groupFrom(inf.input, r))
    ELSE IF terms.rule = "copy"
    THEN produceMade(inf, terms.assignments,
                     copyFrom(1, inf.input, r,
                              [indices |-> <<>>, objects |-> <<>>]))
    ELSE [inf |-> [inf EXCEPT !.error = "Unknown rule in produce()"], r |-> r]

\* reload after sync_to_objects and load: the output, succeeded
reloaded(inf, loaded) ==
    [inf |-> [inf EXCEPT !.output = [i \in DOMAIN loaded.objects |-> i],
                         !.succeeded = loaded.objects # <<>>],
     r |-> loaded]

\* SpatialInference.reload()
reload(inf, r) == reloaded(inf, reloadObjects(sync_to_objects(r)))

\* the operation of an inference is dispatched on its name
dispatch(inf, r) ==
    CASE inf.operation.name = "filter" -> filter(inf, r, inf.operation.content)
      [] inf.operation.name = "produce" ->
           produce(inf, r, inf.operation.content)
      [] inf.operation.name = "map" -> map(inf, r, inf.operation.content)
      [] inf.operation.name = "reload" -> reload(inf, r)
      [] OTHER -> [inf |-> [inf EXCEPT !.error = "Unknown inference operation"],
                   r |-> r]

\* SpatialInference(input_indices, operation, fact)
infer(input_indices, op, r) ==
    dispatch(SpatialInference(input_indices, op), r)

\* SpatialInference.has_failed()
has_failed(inf) == inf.error # ""

\* the input of the next inference: the output of the last one of the chain
input_chain(r) ==
    IF r.chain # <<>> THEN r.chain[Len(r.chain)].output
    ELSE [i \in DOMAIN r.objects |-> i]

RECURSIVE runFrom(_, _, _)
\* the adjust branch of the loop of run
runAdjusted(k, adjusted, pipeline) ==
    IF adjusted.ok THEN runFrom(k + 1, adjusted.r, pipeline)
    ELSE [r |-> adjusted.r, executed |-> k]

\* self.record(inference), and the end of the loop if it has failed
runInferred(k, inferred, pipeline) ==
    IF has_failed(inferred.inf)
    THEN [r |-> [inferred.r EXCEPT !.chain = Append(@, inferred.inf)],
          executed |-> k]
    ELSE runFrom(k + 1,
                 [inferred.r EXCEPT !.chain = Append(@, inferred.inf)],
                 pipeline)

\* the loop of run over the operations from the k-th on: the reasoner when
\* the loop ends, and the number of operations it has entered. No log is
\* among the operations drawn.
runFrom(k, r, pipeline) ==
    IF k > Len(pipeline) THEN [r |-> r, executed |-> Len(pipeline)]
    ELSE CASE pipeline[k].name = "adjust" ->
                runAdjusted(k, adjust(r, pipeline[k].content), pipeline)
           [] pipeline[k].name = "deduce" ->
                runFrom(k + 1, deduce_categories(r, pipeline[k].content),
                        pipeline)
           [] pipeline[k].name = "halt" -> [r |-> r, executed |-> k]
           [] OTHER ->
                runInferred(k, infer(input_chain(r), pipeline[k], r), pipeline)

\* what run returns: succeeded of the last inference, and without inference
\* whether a deduce is among the operations
runValue(r, pipeline, executed) ==
    [r |-> r,
     value |-> IF r.chain # <<>> THEN r.chain[Len(r.chain)].succeeded
               ELSE \E k \in DOMAIN pipeline : pipeline[k].name = "deduce",
     executed |-> executed]

\* run after the loop: self.sync_to_objects() and the value
runDone(done, pipeline) ==
    runValue(sync_to_objects(done.r), pipeline, done.executed)

\* SpatialReasoner.run(pipeline): the reasoner afterwards, what the call
\* returns, and the number of operations entered
run(r, pipeline) ==
    runDone(runFrom(1, [r EXCEPT !.chain = <<>>], pipeline), pipeline)

\* "<key> = <name>"
Assignment(key, name) == [key |-> key, name |-> name]
\* the operations drawn: filter(width > 0), filter(width >>> 0),
\* produce(copy), produce(group), produce(nothing), map(label = id),
\* map(label = nosuchname), reload(), adjust(turn), deduce(topology), halt(),
\* bogus()
Ops ==
    {Op("filter", [kind |-> "above", key |-> "width", low |-> 0]),
     Op("filter", [kind |-> "invalid"]),
     Op("produce", [rule |-> "copy", assignments |-> <<>>]),
     Op("produce", [rule |-> "group", assignments |-> <<>>]),
     Op("produce", [rule |-> "nothing", assignments |-> <<>>]),
     Op("map", <<Assignment("label", "id")>>),
     Op("map", <<Assignment("label", "nosuchname")>>),
     Op("reload", <<>>),
     Op("adjust", <<Setting("turn", "", <<>>)>>),
     Op("deduce", {"topology"}),
     Op("halt", <<>>),
     Op("bogus", <<>>)}
\* the pipelines drawn: up to MaxOps operations
Pipelines == UNION {[1 .. n -> Ops] : n \in 1 .. MaxOps}

\* a reasoner without objects, and two boxes that no reasoner has loaded;
\* the box around the two has even extents
InitRun ==
    /\ \E ha \in 1 .. 2, gap \in {0, 4} :
          objs = [A |-> Box("A", ha, 1, 1, Origin, 0),
                  B |-> Box("B", 1, 1, 1, Vector3(ha + 1 + gap, 0, 0), 0)]
    /\ sr = SpatialReasoner
    /\ arg = NoArg
    /\ ret = NoRet

\* sr.load([A, B])
Load ==
    /\ sr' = load(sr, <<objs.A, objs.B>>)
    /\ objs' = [n \in ObjIds |-> [objs[n] EXCEPT !.context = TRUE]]
    /\ ret' = [op |-> "load"]
    /\ UNCHANGED arg

\* sr.load_from_dicts([A.asDict(), B.asDict()])
Load_from_dicts ==
    /\ sr' = load_from_dicts(sr, <<asDict(objs.A, 0, 0), asDict(objs.B, 0, 0)>>)
    /\ ret' = [op |-> "load_from_dicts"]
    /\ UNCHANGED <<objs, arg>>

\* sr.sync_to_objects()
Sync_to_objects ==
    /\ sr' = sync_to_objects(sr)
    /\ ret' = [op |-> "sync_to_objects"]
    /\ UNCHANGED <<objs, arg>>

\* the reasoner and the value after run
Ran(pipeline, done) ==
    /\ sr' = done.r
    /\ ret' = [op |-> "run", pipeline |-> pipeline, value |-> done.value,
               executed |-> done.executed]

\* value = sr.run(pipeline); the runs followed are those of a reasoner whose
\* chain is empty, which bounds the objects that copies add
Run ==
    /\ sr.chain = <<>>
    /\ \E pipeline \in Pipelines : Ran(pipeline, run(sr, pipeline))
    /\ UNCHANGED <<objs, arg>>

NextRun == Load \/ Load_from_dicts \/ Sync_to_objects \/ Run

SpecRun == InitRun /\ [][NextRun]_<<objs, arg, ret, sr>>

\* C28: after load, load_from_dicts, sync_to_objects and every run, each
\* object of the reasoner has that reasoner as its context.
C28_ObjectsInContext ==
    ret.op \in {"load", "load_from_dicts", "sync_to_objects", "run"} =>
        \A i \in DOMAIN sr.objects : sr.objects[i].context

\* C29: the ids stay unique: after any sequence of produce(copy),
\* produce(group), map, reload and run, the ids of the objects of the
\* reasoner and those of the dicts of its fact base are pairwise distinct.
C29_UniqueIds ==
    /\ \A i, j \in DOMAIN sr.objects :
          sr.objects[i].id = sr.objects[j].id => i = j
    /\ \A i, j \in DOMAIN sr.base :
          sr.base[i].id = sr.base[j].id => i = j

\* C30: a pipeline aborted by an error of an inference reports the failure:
\* when an inference recorded by run has an error, it is the last one of the
\* chain, the operation that made it is the last one the loop entered, and
\* run returns False.
C30_FailureReported ==
    ret.op = "run" =>
        \A k \in DOMAIN sr.chain :
            has_failed(sr.chain[k]) =>
                /\ k = Len(sr.chain)
                /\ ret.pipeline[ret.executed] = sr.chain[k].operation
                /\ ret.value = FALSE

====
